---------------------------- MODULE Spec2Model ----------------------------
(***************************************************************************)
(* A model of the Granite Docling serverless worker: the request handler   *)
(* of handler.py and the DoclingHandler of docling_handler.py, whose       *)
(* convert_document runs the enrichment stages over a conversion result.   *)
(*                                                                         *)
(* Texts are TLA+ strings and dicts are records.  The external             *)
(* collaborators (the conversion engine, the captioning model, the model   *)
(* loaders) and the places where exceptions are raised are inputs drawn    *)
(* from small sets.                                                        *)
(***************************************************************************)
EXTENDS Integers, Sequences, FiniteSets, TLC

(***************************************************************************)
(* Bounds.                                                                 *)
(***************************************************************************)
\* The largest number of items (images, tables, formula matches, elements)
\* a document of the item-level inputs holds in all its collections together.
MaxItems == 2

(***************************************************************************)
(* Text primitives: what str.lower, the in operator and str.replace do.    *)
(***************************************************************************)
UpperLetters == "ABCDEFGHIJKLMNOPQRSTUVWXYZ"

LowerLetters == "abcdefghijklmnopqrstuvwxyz"

CharAt(s, i) == SubSeq(s, i, i)

\* The characters of s, as a set.
Chars(s) == {CharAt(s, i) : i \in 1..Len(s)}

\* The lower-case letter of every upper-case letter.
LowerOf ==
    [c \in Chars(UpperLetters) |->
        CharAt(LowerLetters, CHOOSE i \in 1..Len(UpperLetters) : CharAt(UpperLetters, i) = c)]

LowerChar(c) == IF c \in DOMAIN LowerOf THEN LowerOf[c] ELSE c

\* str.lower()
RECURSIVE lower(_)
lower(s) ==
    IF Len(s) = 0 THEN "" ELSE LowerChar(CharAt(s, 1)) \o lower(SubSeq(s, 2, Len(s)))

\* sub occurs in s at position i
OccursAt(s, sub, i) ==
    /\ i >= 1
    /\ i + Len(sub) - 1 <= Len(s)
    /\ SubSeq(s, i, i + Len(sub) - 1) = sub

\* Python's `sub in s`
Contains(s, sub) == \E i \in 1..(Len(s) + 1) : OccursAt(s, sub, i)

\* str.replace(old, new) for a non-empty old: every non-overlapping
\* occurrence, scanning from the left, case-sensitively.
RECURSIVE replace(_, _, _)
replace(s, old, new) ==
    IF Len(s) = 0 THEN ""
    ELSE IF OccursAt(s, old, 1)
         THEN new \o replace(SubSeq(s, Len(old) + 1, Len(s)), old, new)
         ELSE CharAt(s, 1) \o replace(SubSeq(s, 2, Len(s)), old, new)

(***************************************************************************)
(* LexicalTranslator: the two substitution tables, in dict order.          *)
(***************************************************************************)
translations_to_french ==
    << <<"a person", "une personne">>, <<"a man", "un homme">>,
       <<"a woman", "une femme">>, <<"a dog", "un chien">>,
       <<"a cat", "un chat">>, <<"a car", "une voiture">>,
       <<"a building", "un bâtiment">>, <<"a tree", "un arbre">>,
       <<"a table", "une table">>, <<"a chair", "une chaise">>,
       <<"text", "texte">>, <<"document", "document">>,
       <<"chart", "graphique">>, <<"diagram", "diagramme">>,
       <<"image", "image">> >>

translations_to_english ==
    << <<"une personne", "a person">>, <<"un homme", "a man">>,
       <<"une femme", "a woman">>, <<"un chien", "a dog">>,
       <<"un chat", "a cat">>, <<"une voiture", "a car">>,
       <<"un bâtiment", "a building">>, <<"un arbre", "a tree">>,
       <<"une table", "a table">>, <<"une chaise", "a chair">>,
       <<"texte", "text">>, <<"document", "document">>,
       <<"graphique", "chart">>, <<"diagramme", "diagram">>,
       <<"image", "image">> >>

\* The first table entry (from index k) whose key occurs in probe decides:
\* text.replace(key, value) is returned; with no such entry, text itself.
RECURSIVE FirstMatchReplace(_, _, _, _)
FirstMatchReplace(table, probe, text, k) ==
    IF k > Len(table) THEN text
    ELSE IF Contains(probe, table[k][1])
         THEN replace(text, table[k][1], table[k][2])
         ELSE FirstMatchReplace(table, probe, text, k + 1)

\* The key is looked for in text.lower(), the replacement is made in text.
translate_to_french(text) ==
    FirstMatchReplace(translations_to_french, lower(text), text, 1)

\* The key is looked for in text itself.
translate_to_english(text) ==
    FirstMatchReplace(translations_to_english, text, text, 1)

(***************************************************************************)
(* The conversion result and the faults.                                   *)
(*                                                                         *)
(* A document is a record: its fields images, tables and elements are the  *)
(* collections (a missing field is an attribute hasattr does not find),    *)
(* markdown and html are its two exports.  The same holds of a table (rows *)
(* and columns hold the lengths) and of an element (label, text, level,    *)
(* list_type).                                                             *)
(*                                                                         *)
(* faults says where exceptions are raised during one call: stages holds   *)
(* the stages whose body raises before its result is stored, and images,   *)
(* formulas and tables hold the 0-based numbers of the items whose turn of *)
(* the loop raises inside the loop's own try.                              *)
(***************************************************************************)
HasAttr(object, name) == name \in DOMAIN object

GetAttr(object, name, default) == IF HasAttr(object, name) THEN object[name] ELSE default

\* enhanced_result[key] = value
SetKey(enhanced_result, key, value) ==
    [k \in (DOMAIN enhanced_result) \cup {key} |->
        IF k = key THEN value ELSE enhanced_result[k]]

(***************************************************************************)
(* CaptionEnricher.  An image is what the captioning model does with it:   *)
(* captioning is "ok", with the caption it decodes, or "raises".           *)
(***************************************************************************)
generate_image_description(image) ==
    IF image.captioning = "raises"
    THEN "Image avec contenu visuel"
    ELSE translate_to_french(image.caption)

\* One turn of the loop over enumerate(images): the record appended for the
\* image at index i; loop_error when the turn raises in the loop's try.
ImageRecord(image, i, loop_error) ==
    IF loop_error
    THEN [index |-> i,
          description_fr |-> "Description non disponible",
          description_en |-> "Description not available"]
    ELSE LET description == generate_image_description(image)
         IN  [index |-> i,
              description_fr |-> description,
              description_en |-> translate_to_english(description)]

\* A faulty variant: a document without images stores no collection.
add_image_descriptions_SkipsEmpty(self, result, enhanced_result, faults) ==
    IF ~self.image_model_loaded THEN enhanced_result
    ELSE IF "image_descriptions" \in faults.stages THEN enhanced_result
    ELSE LET images == GetAttr(result.document, "images", << >>)
         IN  IF Len(images) = 0 THEN enhanced_result
             ELSE SetKey(enhanced_result, "image_descriptions",
                         [n \in 1..Len(images) |->
                             ImageRecord(images[n], n - 1, (n - 1) \in faults.images)])

add_image_descriptions(self, result, enhanced_result, faults) ==
    IF ~self.image_model_loaded THEN enhanced_result
    ELSE IF "image_descriptions" \in faults.stages THEN enhanced_result
    ELSE LET images == GetAttr(result.document, "images", << >>)
         IN  SetKey(enhanced_result, "image_descriptions",
                    [n \in 1..Len(images) |->
                        ImageRecord(images[n], n - 1, (n - 1) \in faults.images)])

(***************************************************************************)
(* PatternMatcher: re.finditer for the five patterns of math_patterns.     *)
(* Each pattern is a chain of character classes that cannot overlap, so    *)
(* the greedy match at a position is the only one.                         *)
(***************************************************************************)
Letters == Chars(UpperLetters \o LowerLetters)

Digits == Chars("0123456789")

\* \s
Whitespace == Chars(" \t\n\r\f")

\* [a-zA-Z0-9+\-*/^()]
ExpressionChars == Letters \cup Digits \cup Chars("+-*/^()")

\* The character of s at i, "" past either end.
Char(s, i) == IF i >= 1 /\ i <= Len(s) THEN CharAt(s, i) ELSE ""

InClass(chars, c) == c \in chars

\* The length of the longest run from position i of characters that are
\* (inside) or are not (~inside) in chars.
RECURSIVE RunLen(_, _, _, _)
RunLen(s, i, chars, inside) ==
    IF i <= Len(s) /\ (InClass(chars, CharAt(s, i)) <=> inside)
    THEN 1 + RunLen(s, i + 1, chars, inside)
    ELSE 0

\* \$[^$]+\$
MatchDollar(s, i) ==
    LET r == RunLen(s, i + 1, {"$"}, FALSE)
    IN  IF Char(s, i) = "$" /\ r >= 1 /\ Char(s, i + 1 + r) = "$"
        THEN r + 2 ELSE 0

\* \\\[[^\]]+\\\]  and  \\\([^)]+\\\) : open is the two opening characters,
\* close the closing bracket; the run before it must end in a backslash.
MatchBracketed(s, i, open, close) ==
    LET r == RunLen(s, i + 2, {close}, FALSE)
    IN  IF /\ OccursAt(s, open, i)
           /\ r >= 2
           /\ Char(s, i + 1 + r) = "\\"
           /\ Char(s, i + 2 + r) = close
        THEN r + 3 ELSE 0

\* [a-zA-Z]\s*[=<>]\s*[a-zA-Z0-9+\-*/^()]+
MatchEquation(s, i) ==
    LET w1 == RunLen(s, i + 1, Whitespace, TRUE)
        j  == i + 1 + w1
        w2 == RunLen(s, j + 1, Whitespace, TRUE)
        r  == RunLen(s, j + 1 + w2, ExpressionChars, TRUE)
    IN  IF InClass(Letters, Char(s, i)) /\ InClass(Chars("=<>"), Char(s, j)) /\ r >= 1
        THEN 1 + w1 + 1 + w2 + r ELSE 0

\* [0-9]+\s*[+\-*/]\s*[0-9]+
MatchArithmetic(s, i) ==
    LET d1 == RunLen(s, i, Digits, TRUE)
        w1 == RunLen(s, i + d1, Whitespace, TRUE)
        j  == i + d1 + w1
        w2 == RunLen(s, j + 1, Whitespace, TRUE)
        d2 == RunLen(s, j + 1 + w2, Digits, TRUE)
    IN  IF d1 >= 1 /\ InClass(Chars("+-*/"), Char(s, j)) /\ d2 >= 1
        THEN d1 + w1 + 1 + w2 + d2 ELSE 0

\* The length of the match of pattern p (1..5, the order of math_patterns)
\* that starts at position i of s, 0 when there is none.
MatchLen(p, s, i) ==
    CASE p = 1 -> MatchDollar(s, i)
      [] p = 2 -> MatchBracketed(s, i, "\\[", "]")
      [] p = 3 -> MatchBracketed(s, i, "\\(", ")")
      [] p = 4 -> MatchEquation(s, i)
      [] p = 5 -> MatchArithmetic(s, i)

\* re.finditer(pattern, content) from position i: the matches from left to
\* right, none overlapping, each with match.group() and match.span().
RECURSIVE finditer(_, _, _)
finditer(p, s, i) ==
    IF i > Len(s) THEN << >>
    ELSE LET n == MatchLen(p, s, i)
         IN  IF n > 0
             THEN << [group |-> SubSeq(s, i, i + n - 1), span |-> <<i - 1, i - 1 + n>>] >>
                  \o finditer(p, s, i + n)
             ELSE finditer(p, s, i + 1)

\* Every match the loops of enrich_formulas visit, in visiting order:
\* pattern by pattern, left to right within a pattern.
math_matches(content) ==
    finditer(1, content, 1) \o finditer(2, content, 1) \o finditer(3, content, 1)
        \o finditer(4, content, 1) \o finditer(5, content, 1)

(***************************************************************************)
(* FormulaEnricher.                                                        *)
(***************************************************************************)
\* The cleaning chain of str.replace calls.
clean_formula(formula) ==
    replace(replace(replace(replace(replace(formula,
        "$", ""), "\\[", ""), "\\]", ""), "\\(", ""), "\\)", "")

\* The record _enrich_single_formula builds before it looks at the type.
FormulaBase(clean) ==
    [formula |-> clean,
     type |-> "mathematical_expression",
     description_fr |-> "Expression mathématique",
     description_en |-> "Mathematical expression",
     latex |-> "$" \o clean \o "$",
     simplified |-> clean]

\* A faulty variant: the '=' check comes before the '+'/'-' check.
enrich_single_formula_EquationFirst(formula, is_text) ==
    IF ~is_text
    THEN [formula |-> formula,
          type |-> "unknown",
          description_fr |-> "Formule non reconnue",
          description_en |-> "Unrecognized formula"]
    ELSE LET clean == clean_formula(formula)
         IN  IF Contains(clean, "=")
             THEN [FormulaBase(clean) EXCEPT !.type = "equation",
                       !.description_fr = "Équation mathématique",
                       !.description_en = "Mathematical equation"]
             ELSE IF Contains(clean, "+") \/ Contains(clean, "-")
             THEN [FormulaBase(clean) EXCEPT !.type = "arithmetic",
                       !.description_fr = "Opération arithmétique",
                       !.description_en = "Arithmetic operation"]
             ELSE IF Contains(clean, "^") \/ Contains(clean, "**")
             THEN [FormulaBase(clean) EXCEPT !.type = "exponential",
                       !.description_fr = "Expression exponentielle",
                       !.description_en = "Exponential expression"]
             ELSE FormulaBase(clean)

\* A faulty variant: no except branch, the error of the body escapes.
enrich_single_formula_Reraises(formula, is_text) ==
    IF ~is_text
    THEN [raised |-> TRUE, error |-> "object has no attribute 'replace'"]
    ELSE LET clean == clean_formula(formula)
         IN  IF Contains(clean, "+") \/ Contains(clean, "-")
             THEN [FormulaBase(clean) EXCEPT !.type = "arithmetic",
                       !.description_fr = "Opération arithmétique",
                       !.description_en = "Arithmetic operation"]
             ELSE IF Contains(clean, "=")
             THEN [FormulaBase(clean) EXCEPT !.type = "equation",
                       !.description_fr = "Équation mathématique",
                       !.description_en = "Mathematical equation"]
             ELSE IF Contains(clean, "^") \/ Contains(clean, "**")
             THEN [FormulaBase(clean) EXCEPT !.type = "exponential",
                       !.description_fr = "Expression exponentielle",
                       !.description_en = "Exponential expression"]
             ELSE FormulaBase(clean)

\* is_text is FALSE for an input on which the body raises (not a str): the
\* except branch answers with the reserved record.
enrich_single_formula(formula, is_text) ==
    IF ~is_text
    THEN [formula |-> formula,
          type |-> "unknown",
          description_fr |-> "Formule non reconnue",
          description_en |-> "Unrecognized formula"]
    ELSE LET clean == clean_formula(formula)
             base  == FormulaBase(clean)
         IN  IF Contains(clean, "+") \/ Contains(clean, "-")
             THEN [base EXCEPT !.type = "arithmetic",
                               !.description_fr = "Opération arithmétique",
                               !.description_en = "Arithmetic operation"]
             ELSE IF Contains(clean, "=")
             THEN [base EXCEPT !.type = "equation",
                               !.description_fr = "Équation mathématique",
                               !.description_en = "Mathematical equation"]
             ELSE IF Contains(clean, "^") \/ Contains(clean, "**")
             THEN [base EXCEPT !.type = "exponential",
                               !.description_fr = "Expression exponentielle",
                               !.description_en = "Exponential expression"]
             ELSE base

\* The records the loops append for the matches from the k-th on.  A match
\* whose turn raises inside the loop's try (its number is in loop_errors) is
\* logged and nothing is appended for it.
RECURSIVE EnrichedFormulas(_, _, _)
EnrichedFormulas(matches, loop_errors, k) ==
    IF k > Len(matches) THEN << >>
    ELSE (IF (k - 1) \in loop_errors
          THEN << >>
          ELSE << [original |-> matches[k].group,
                   enriched |-> enrich_single_formula(matches[k].group, TRUE),
                   position |-> matches[k].span] >>)
         \o EnrichedFormulas(matches, loop_errors, k + 1)

enrich_formulas(self, result, enhanced_result, faults) ==
    IF ~self.formula_model_loaded THEN enhanced_result
    ELSE IF "formula_enrichment" \in faults.stages THEN enhanced_result
    ELSE SetKey(enhanced_result, "formula_enrichments",
                EnrichedFormulas(math_matches(enhanced_result.content),
                                 faults.formulas, 1))

(***************************************************************************)
(* TableEnricher.  A table with an error field is one whose attributes     *)
(* raise that error when they are read.                                    *)
(***************************************************************************)
TableFallback(index, error) ==
    [index |-> index, error |-> error, type |-> "unknown"]

\* A faulty variant: the summary is written as soon as one count is non-zero.
analyze_single_table_SummaryForEitherCount(table, index) ==
    IF HasAttr(table, "error") THEN TableFallback(index, table.error)
    ELSE LET rows    == GetAttr(table, "rows", 0)
             columns == GetAttr(table, "columns", 0)
         IN  [index |-> index,
              type |-> "data_table",
              description_fr |-> IF rows > 0 THEN "Tableau avec en-têtes"
                                             ELSE "Tableau de données",
              description_en |-> IF rows > 0 THEN "Table with headers"
                                             ELSE "Data table",
              rows |-> rows,
              columns |-> columns,
              has_headers |-> rows > 0,
              data_types |-> << >>,
              summary |-> IF rows > 0 \/ columns > 0
                          THEN "Tableau de " \o ToString(rows) \o " lignes et "
                                   \o ToString(columns) \o " colonnes"
                          ELSE ""]

analyze_single_table(table, index) ==
    IF HasAttr(table, "error") THEN TableFallback(index, table.error)
    ELSE LET rows    == GetAttr(table, "rows", 0)
             columns == GetAttr(table, "columns", 0)
         IN  [index |-> index,
              type |-> "data_table",
              description_fr |-> IF rows > 0 THEN "Tableau avec en-têtes"
                                             ELSE "Tableau de données",
              description_en |-> IF rows > 0 THEN "Table with headers"
                                             ELSE "Data table",
              rows |-> rows,
              columns |-> columns,
              has_headers |-> rows > 0,
              data_types |-> << >>,
              summary |-> IF rows > 0 /\ columns > 0
                          THEN "Tableau de " \o ToString(rows) \o " lignes et "
                                   \o ToString(columns) \o " colonnes"
                          ELSE ""]

analyze_tables(self, result, enhanced_result, faults) ==
    IF "table_analysis" \in faults.stages THEN enhanced_result
    ELSE LET tables == GetAttr(result.document, "tables", << >>)
         IN  SetKey(enhanced_result, "table_analysis",
                    [n \in 1..Len(tables) |->
                        IF (n - 1) \in faults.tables
                        THEN TableFallback(n - 1, "loop error")
                        ELSE analyze_single_table(tables[n], n - 1)])

(***************************************************************************)
(* ContentStatsEnricher.                                                   *)
(***************************************************************************)
\* len(text.split()): the number of maximal runs of non-whitespace from i.
RECURSIVE WordCount(_, _)
WordCount(s, i) ==
    LET start == i + RunLen(s, i, Whitespace, TRUE)
    IN  IF start > Len(s) THEN 0
        ELSE 1 + WordCount(s, start + RunLen(s, start, Whitespace, FALSE))

\* sum(len(word) for word in text.split())
RECURSIVE WordChars(_, _)
WordChars(s, i) ==
    IF i > Len(s) THEN 0
    ELSE (IF InClass(Whitespace, CharAt(s, i)) THEN 0 ELSE 1) + WordChars(s, i + 1)

\* text.split(sep) for a non-empty sep, from position i, piece being the
\* characters gathered since the last separator.
RECURSIVE SplitFrom(_, _, _, _)
SplitFrom(s, sep, i, piece) ==
    IF i > Len(s) THEN << piece >>
    ELSE IF OccursAt(s, sep, i)
         THEN << piece >> \o SplitFrom(s, sep, i + Len(sep), "")
         ELSE SplitFrom(s, sep, i + 1, piece \o CharAt(s, i))

split(s, sep) == SplitFrom(s, sep, 1, "")

\* p.strip() is not empty
NotBlank(p) == RunLen(p, 1, Whitespace, TRUE) < Len(p)

RECURSIVE GCD(_, _)
GCD(a, b) == IF b = 0 THEN a ELSE GCD(b, a % b)

\* The number num/den (den > 0) in lowest terms.
Ratio(num, den) ==
    LET g == GCD(IF num < 0 THEN -num ELSE num, den)
    IN  [num |-> num \div g, den |-> den \div g]

\* A faulty variant: S counts the full stops, not the pieces between them.
calculate_readability_CountsDelimiters(text, raises) ==
    LET W == WordCount(text, 1)
        S == Len(split(text, ".")) - 1
        C == WordChars(text, 1)
        num == 200 * S * W - W * W - 4 * C * S
        den == 2 * S * W
    IN  IF raises THEN Ratio(50, 1)
        ELSE IF S = 0 \/ W = 0 THEN Ratio(0, 1)
        ELSE IF num <= 0 THEN Ratio(0, 1)
        ELSE IF num >= 100 * den THEN Ratio(100, 1)
        ELSE Ratio(num, den)

\* 100 - (W/S) * 0.5 - (C/W) * 2 over W words, S pieces between full stops
\* and C characters in the words, clamped to 0..100: an exact fraction.
\* raises: the computation raises and the except branch answers 50.0.
calculate_readability(text, raises) ==
    LET W == WordCount(text, 1)
        S == Len(split(text, "."))
        C == WordChars(text, 1)
        num == 200 * S * W - W * W - 4 * C * S
        den == 2 * S * W
    IN  IF raises THEN Ratio(50, 1)
        ELSE IF S = 0 \/ W = 0 THEN Ratio(0, 1)
        ELSE IF num <= 0 THEN Ratio(0, 1)
        ELSE IF num >= 100 * den THEN Ratio(100, 1)
        ELSE Ratio(num, den)

\* A faulty variant: the first check that matches decides.
content_type_FirstMatchWins(content) ==
    IF Contains(lower(content), "table") \/ Contains(content, "|")
    THEN "document_with_tables"
    ELSE IF Contains(lower(content), "image") \/ Contains(content, "![image]")
    THEN "document_with_images"
    ELSE IF Contains(content, "$") \/ Contains(content, "\\[") \/ Contains(content, "\\(")
    THEN "document_with_formulas"
    ELSE "document"

\* The three checks run in this order and each overwrites the last.
content_type(content) ==
    LET c1 == IF Contains(lower(content), "table") \/ Contains(content, "|")
              THEN "document_with_tables" ELSE "document"
        c2 == IF Contains(lower(content), "image") \/ Contains(content, "![image]")
              THEN "document_with_images" ELSE c1
    IN  IF Contains(content, "$") \/ Contains(content, "\\[") \/ Contains(content, "\\(")
        THEN "document_with_formulas" ELSE c2

\* A faulty variant: the stage normalizes the content it analyzed and
\* stores it back.
enhance_content_RewritesContent(self, enhanced_result, faults) ==
    IF "content_enhancement" \in faults.stages THEN enhanced_result
    ELSE LET content == enhanced_result.content
         IN  SetKey(SetKey(enhanced_result, "content", lower(content)),
                "content_enhancement",
                [statistics |->
                    [word_count |-> WordCount(content, 1),
                     character_count |-> Len(content),
                     line_count |-> Len(split(content, "\n")),
                     paragraph_count |->
                        Len(SelectSeq(split(content, "\n\n"), NotBlank))],
                 content_type |-> content_type(content),
                 language_detected |-> "fr",
                 readability_score |-> calculate_readability(content, faults.readability)])

enhance_content(self, enhanced_result, faults) ==
    IF "content_enhancement" \in faults.stages THEN enhanced_result
    ELSE LET content == enhanced_result.content
         IN  SetKey(enhanced_result, "content_enhancement",
                [statistics |->
                    [word_count |-> WordCount(content, 1),
                     character_count |-> Len(content),
                     line_count |-> Len(split(content, "\n")),
                     paragraph_count |->
                        Len(SelectSeq(split(content, "\n\n"), NotBlank))],
                 content_type |-> content_type(content),
                 language_detected |-> "fr",
                 readability_score |-> calculate_readability(content, faults.readability)])

(***************************************************************************)
(* StructureAnalyzer.                                                      *)
(***************************************************************************)
IsHeading(element) == HasAttr(element, "label") /\ element.label = "heading"

IsList(element) == HasAttr(element, "label") /\ element.label = "list"

\* A faulty variant: a heading without a level gets level 0.
HeadingEntry_LevelZero(element) ==
    [text |-> GetAttr(element, "text", ""), level |-> GetAttr(element, "level", 0)]

HeadingEntry(element) ==
    [text |-> GetAttr(element, "text", ""), level |-> GetAttr(element, "level", 1)]

ListEntry(element) ==
    [text |-> GetAttr(element, "text", ""), type |-> GetAttr(element, "list_type", "bullet")]

analyze_document_structure(self, result, enhanced_result, faults) ==
    IF "structure_analysis" \in faults.stages THEN enhanced_result
    ELSE LET elements == GetAttr(result.document, "elements", << >>)
             headings == SelectSeq(elements, IsHeading)
             lists    == SelectSeq(elements, IsList)
         IN  SetKey(enhanced_result, "document_structure",
                [sections |-> << >>,
                 headings |-> [n \in 1..Len(headings) |-> HeadingEntry(headings[n])],
                 lists    |-> [n \in 1..Len(lists) |-> ListEntry(lists[n])],
                 figures  |-> << >>,
                 tables   |-> << >>,
                 formulas |-> << >>])

(***************************************************************************)
(* DoclingHandler: construction, initialization, readiness, cleanup.       *)
(***************************************************************************)
None == [type |-> "NoneType"]

\* {}
EmptyDict == << >>

\* DoclingHandler.__init__
DoclingHandler ==
    [converter |-> None,
     model_loaded |-> FALSE,
     image_model_loaded |-> FALSE,
     formula_model_loaded |-> FALSE]

\* initialize().  load is what the libraries do this time: converter_raises
\* (building the pipeline options or the DocumentConverter raises),
\* converter (the object built otherwise), image_model and formula_model
\* (whether from_pretrained succeeds).  A model that fails to load is
\* logged and leaves its flag as it was.
initialize(self, load) ==
    IF load.converter_raises
    THEN [raised |-> TRUE, error |-> "initialization failed", self |-> self]
    ELSE [raised |-> FALSE,
          self |-> [converter |-> load.converter,
                    model_loaded |-> TRUE,
                    image_model_loaded |-> self.image_model_loaded \/ load.image_model,
                    formula_model_loaded |-> self.formula_model_loaded \/ load.formula_model]]

\* A faulty variant: a handler without a converter is initialized again.
is_ready_InitializesWithoutConverter(self, load) ==
    LET init  == IF ~self.model_loaded \/ self.converter = None
                 THEN initialize(self, load)
                 ELSE [raised |-> FALSE, self |-> self]
    IN  IF init.raised
        THEN [value |-> FALSE, self |-> init.self]
        ELSE [value |-> init.self.model_loaded /\ init.self.converter # None,
              self |-> init.self]

is_ready(self, load) ==
    LET init  == IF ~self.model_loaded THEN initialize(self, load)
                 ELSE [raised |-> FALSE, self |-> self]
    IN  IF init.raised
        THEN [value |-> FALSE, self |-> init.self]
        ELSE [value |-> init.self.model_loaded /\ init.self.converter # None,
              self |-> init.self]

cleanup(self) == [self EXCEPT !.converter = None]

\* Every format option of the shared converter that has ocr_params gets the
\* request's language list.
update_ocr_languages(self, languages) ==
    IF HasAttr(self.converter, "format_options")
    THEN [self EXCEPT !.converter.format_options =
            [f \in DOMAIN @ |->
                IF HasAttr(@[f], "ocr_params")
                THEN [@[f] EXCEPT !.ocr_params.languages = languages]
                ELSE @[f]]]
    ELSE self

(***************************************************************************)
(* EnrichmentOrchestrator: convert_document.                               *)
(*                                                                         *)
(* args are the keyword arguments (ocr_languages << >> stands for None and *)
(* for the empty list, both false in `if ocr_languages`).  engine is what  *)
(* the collaborators do during the call: load (see initialize),            *)
(* convert_raises, the document converter.convert returns, and faults.     *)
(* The answer holds raised, the value returned or the error raised, and    *)
(* self, the handler as the call leaves it.                                *)
(***************************************************************************)
\* A faulty variant: the name is put at the front of the list.
Append_feature_AtFront(enhanced_result, name) ==
    [enhanced_result EXCEPT !.metadata.features_used = <<name>> \o @]

Append_feature(enhanced_result, name) ==
    [enhanced_result EXCEPT !.metadata.features_used = Append(@, name)]

\* A faulty variant: include_images is not consulted.
ImageStage_IgnoresIncludeImages(self, args, result, enhanced_result, faults) ==
    IF args.include_image_descriptions /\ self.image_model_loaded
    THEN Append_feature(add_image_descriptions(self, result, enhanced_result, faults),
                        "image_descriptions")
    ELSE enhanced_result

ImageStage(self, args, result, enhanced_result, faults) ==
    IF args.include_images /\ args.include_image_descriptions /\ self.image_model_loaded
    THEN Append_feature(add_image_descriptions(self, result, enhanced_result, faults),
                        "image_descriptions")
    ELSE enhanced_result

FormulaStage(self, args, result, enhanced_result, faults) ==
    IF args.include_formula_enrichment /\ self.formula_model_loaded
    THEN Append_feature(enrich_formulas(self, result, enhanced_result, faults),
                        "formula_enrichment")
    ELSE enhanced_result

TableStage(self, args, result, enhanced_result, faults) ==
    IF args.include_tables
    THEN Append_feature(analyze_tables(self, result, enhanced_result, faults),
                        "table_analysis")
    ELSE enhanced_result

\* A faulty variant: the content stage also waits for include_tables.
ContentStage_NeedsTables(self, args, result, enhanced_result, faults) ==
    IF args.enhance_content /\ args.include_tables
    THEN Append_feature(enhance_content(self, enhanced_result, faults),
                        "content_enhancement")
    ELSE enhanced_result

ContentStage(self, args, result, enhanced_result, faults) ==
    IF args.enhance_content
    THEN Append_feature(enhance_content(self, enhanced_result, faults),
                        "content_enhancement")
    ELSE enhanced_result

StructureStage(self, args, result, enhanced_result, faults) ==
    Append_feature(analyze_document_structure(self, result, enhanced_result, faults),
                   "structure_analysis")

\* A faulty variant: the stages are not isolated, and the first stage that
\* fails as a whole ends the run with what was gathered before it.
RunStages_StopsAtFailure(self, args, result, enhanced_result, faults) ==
    LET r1 == ImageStage(self, args, result, enhanced_result, faults)
        r2 == FormulaStage(self, args, result, r1, faults)
        r3 == TableStage(self, args, result, r2, faults)
        r4 == ContentStage(self, args, result, r3, faults)
    IN  IF "image_descriptions" \in faults.stages THEN enhanced_result
        ELSE IF "formula_enrichment" \in faults.stages THEN r1
        ELSE IF "table_analysis" \in faults.stages THEN r2
        ELSE IF "content_enhancement" \in faults.stages THEN r3
        ELSE IF "structure_analysis" \in faults.stages THEN r4
        ELSE StructureStage(self, args, result, r4, faults)

\* The stages, in the order convert_document runs them.
RunStages(self, args, result, enhanced_result, faults) ==
    LET r1 == ImageStage(self, args, result, enhanced_result, faults)
        r2 == FormulaStage(self, args, result, r1, faults)
        r3 == TableStage(self, args, result, r2, faults)
        r4 == ContentStage(self, args, result, r3, faults)
    IN  StructureStage(self, args, result, r4, faults)

\* convert_document once is_ready has answered ready.
Convert(ready, args, engine) ==
    LET self1 == IF args.ocr_languages # << >>
                 THEN update_ocr_languages(ready.self, args.ocr_languages)
                 ELSE ready.self
        result == [document |-> engine.document]
        content == IF lower(args.output_format) = "html"
                   THEN result.document.html
                   ELSE result.document.markdown
        enhanced_result ==
            [content |-> content,
             output_format |-> args.output_format,
             metadata |-> [file_path |-> args.file_path,
                           processing_time |-> None,
                           features_used |-> << >>]]
    IN  IF ~ready.value
        THEN [raised |-> TRUE, error |-> "Docling handler is not ready",
              converted |-> FALSE, self |-> ready.self]
        ELSE IF engine.convert_raises
        THEN [raised |-> TRUE, error |-> "conversion failed",
              converted |-> TRUE, self |-> self1]
        ELSE [raised |-> FALSE,
              value |-> RunStages(self1, args, result, enhanced_result, engine.faults),
              converted |-> TRUE, self |-> self1]

convert_document(self, args, engine) ==
    Convert(is_ready(self, engine.load), args, engine)

\* convert_from_url: the download, the temporary file, convert_document
\* with the four options it takes (the others at their defaults), and the
\* unlink of the temporary file.  The download may fail before the file is
\* created (download_raises) or while its chunks are written (write_raises).
convert_from_url_parameters == {"url", "output_format", "include_images", "include_tables"}

convert_from_url(self, kwargs, engine) ==
    IF engine.download_raises
    THEN [raised |-> TRUE, error |-> "download failed", converted |-> FALSE, self |-> self]
    ELSE IF GetAttr(engine, "write_raises", FALSE)
    THEN [raised |-> TRUE, error |-> "Connection broken", converted |-> FALSE, self |-> self]
    ELSE convert_document(self,
            [file_path |-> engine.temp_path,
             output_format |-> kwargs.output_format,
             include_images |-> kwargs.include_images,
             include_tables |-> kwargs.include_tables,
             include_image_descriptions |-> TRUE,
             include_formula_enrichment |-> TRUE,
             ocr_languages |-> << >>,
             enhance_content |-> TRUE],
            engine)

\* The temporary files after convert_from_url: the file is created once the
\* download has started, and unlinked by the finally around the conversion;
\* the loop that writes the chunks runs before that try.
url_temp_files(files, engine) ==
    IF engine.download_raises
    THEN files
    ELSE IF GetAttr(engine, "write_raises", FALSE)
    THEN files \cup {engine.temp_path}
    ELSE (files \cup {engine.temp_path}) \ {engine.temp_path}

(***************************************************************************)
(* handler.py: the request handler.                                        *)
(***************************************************************************)
Failure(error) == [error |-> error, success |-> FALSE]

\* What a request handler hands back: the response, the handler object as
\* the request leaves it, and the convert_document call it made, if any.
NoCall == [type |-> "NoCall"]

CallRecord(self, args, engine, r) ==
    [type |-> "convert_document",
     args |-> args,
     document |-> engine.document,
     faults |-> engine.faults,
     before |-> self,
     after |-> r.self,
     raised |-> r.raised,
     converted |-> r.converted,
     result |-> IF r.raised THEN None ELSE r.value]

\* The options every conversion request reads, with their defaults.
RequestOptions(input_data) ==
    [output_format |-> GetAttr(input_data, "output_format", "markdown"),
     include_images |-> GetAttr(input_data, "include_images", TRUE),
     include_tables |-> GetAttr(input_data, "include_tables", TRUE),
     include_image_descriptions |-> GetAttr(input_data, "include_image_descriptions", TRUE),
     include_formula_enrichment |-> GetAttr(input_data, "include_formula_enrichment", TRUE),
     ocr_languages |-> GetAttr(input_data, "ocr_languages", <<"fra", "eng">>),
     enhance_content |-> GetAttr(input_data, "enhance_content", TRUE)]

\* The success response both conversion handlers build from the aggregate;
\* origin is the key that names where the document came from (source_url
\* or filename).
ConversionResponse(result, output_format, source, origin) ==
    origin @@
    [success |-> TRUE,
     content |-> GetAttr(result, "content", ""),
     output_format |-> output_format,
     source |-> source,
     enhanced_features |-> GetAttr(GetAttr(result, "metadata", EmptyDict), "features_used", << >>),
     image_descriptions |-> GetAttr(result, "image_descriptions", << >>),
     formula_enrichments |-> GetAttr(result, "formula_enrichments", << >>),
     table_analysis |-> GetAttr(result, "table_analysis", << >>),
     content_enhancement |-> GetAttr(result, "content_enhancement", EmptyDict),
     document_structure |-> GetAttr(result, "document_structure", EmptyDict),
     metadata |-> GetAttr(result, "metadata", EmptyDict)]

\* A faulty variant: no except branch, an error of the call escapes the
\* conversion handler as it is.
ConversionAnswer_ErrorEscapes(r, output_format, source, origin, made) ==
    [response |-> IF r.raised THEN [raised |-> TRUE, error |-> r.error]
                  ELSE ConversionResponse(r.value, output_format, source, origin),
     self |-> r.self,
     call |-> made]

\* What a conversion handler answers once its call r has returned or
\* raised: the success response, or the failure of its except branch.
ConversionAnswer(r, output_format, source, origin, made) ==
    [response |-> IF r.raised THEN Failure(r.error)
                  ELSE ConversionResponse(r.value, output_format, source, origin),
     self |-> r.self,
     call |-> made]

\* The convert_from_url call a URL request makes: its keyword arguments,
\* what initialize() (if it runs), the download and the converter do
\* during it, and how it ends.
UrlCallRecord(kwargs, engine, r) ==
    [type |-> "convert_from_url",
     kwargs |-> kwargs,
     initialize_raises |-> engine.load.converter_raises,
     download_raises |-> engine.download_raises,
     convert_raises |-> engine.convert_raises,
     raised |-> r.raised]

\* What handle_url_conversion answers once convert_from_url is over.
UrlAnswer(kwargs, engine, output_format, r) ==
    ConversionAnswer(r, output_format, "url", [source_url |-> kwargs.url],
                     UrlCallRecord(kwargs, engine, r))

\* The call passes every option as a keyword; convert_from_url takes four,
\* and a keyword it does not take is a TypeError before its body runs.
handle_url_conversion(self, input_data, engine) ==
    LET options == RequestOptions(input_data)
        kwargs  == [k \in {"url"} \cup DOMAIN options |->
                        IF k = "url" THEN input_data.document_url ELSE options[k]]
    IN  IF ~(DOMAIN kwargs \subseteq convert_from_url_parameters)
        THEN UrlAnswer(kwargs, engine, options.output_format,
                       [raised |-> TRUE,
                        error |-> "convert_from_url() got an unexpected keyword argument",
                        self |-> self])
        ELSE UrlAnswer(kwargs, engine, options.output_format,
                       convert_from_url(self, kwargs, engine))

\* base64.b64decode: data of base64 characters whose length is no multiple
\* of four is incorrectly padded.
b64decode_raises(data) == Len(data) % 4 # 0

\* What handle_base64_conversion answers once convert_document is over.
Base64Answer(self, args, engine, filename, r) ==
    ConversionAnswer(r, args.output_format, "base64", [filename |-> filename],
                     CallRecord(self, args, engine, r))

handle_base64_conversion(self, input_data, engine) ==
    LET options == RequestOptions(input_data)
        args    == [k \in {"file_path"} \cup DOMAIN options |->
                        IF k = "file_path" THEN engine.temp_path ELSE options[k]]
    IN  IF b64decode_raises(input_data.document_base64)
        THEN [response |-> Failure("Incorrect padding"), self |-> self, call |-> NoCall]
        ELSE IF GetAttr(engine, "write_raises", FALSE)
        THEN [response |-> Failure("No space left on device"), self |-> self, call |-> NoCall]
        ELSE Base64Answer(self, args, engine,
                          GetAttr(input_data, "filename", "document.pdf"),
                          convert_document(self, args, engine))

\* The temporary files after handle_base64_conversion: the file is created
\* once the data is decoded, and unlinked by the finally around the
\* conversion; the write of the data runs before that try.
base64_temp_files(files, input_data, engine) ==
    IF b64decode_raises(input_data.document_base64)
    THEN files
    ELSE IF GetAttr(engine, "write_raises", FALSE)
    THEN files \cup {engine.temp_path}
    ELSE (files \cup {engine.temp_path}) \ {engine.temp_path}

get_model_info(self) ==
    [model_loaded |-> self.model_loaded,
     image_model_loaded |-> self.image_model_loaded,
     formula_model_loaded |-> self.formula_model_loaded,
     features |-> [image_descriptions |-> self.image_model_loaded,
                   formula_enrichment |-> self.formula_model_loaded,
                   table_analysis |-> TRUE,
                   content_enhancement |-> TRUE,
                   structure_analysis |-> TRUE,
                   multi_language_ocr |-> TRUE]]

handle_model_info_request(self) ==
    [response |-> [success |-> TRUE, model_info |-> get_model_info(self)],
     self |-> self, call |-> NoCall]

\* A batch document that is no mapping (a number, say): the test
\* "url" in doc raises on it.
IsMapping(doc) == ~HasAttr(doc, "python_type")

\* One round of the batch loop on document doc of index i: the entry
\* appended to results, and the handler object afterwards.
BatchEntry(i, out) ==
    [entry |-> [index |-> i, result |-> out.response], self |-> out.self]

batch_document(self, doc, i, options, engine) ==
    IF ~IsMapping(doc)
    THEN [entry |-> [index |-> i,
                     error |-> "argument of type 'int' is not iterable",
                     success |-> FALSE],
          self |-> self]
    ELSE IF HasAttr(doc, "url")
    THEN BatchEntry(i, handle_url_conversion(self,
                           [document_url |-> doc.url] @@ options, engine))
    ELSE IF HasAttr(doc, "base64")
    THEN BatchEntry(i, handle_base64_conversion(self,
                           [document_base64 |-> doc.base64,
                            filename |-> GetAttr(doc, "filename",
                                            "document_" \o ToString(i) \o ".pdf")]
                           @@ options, engine))
    ELSE BatchEntry(i, [response |-> Failure("Document must have either 'url' or 'base64' field"),
                        self |-> self])

\* The loop over the documents from position n on (index n - 1), engines[n]
\* saying what the collaborators do for document n.
RECURSIVE batch_results(_, _, _, _, _, _)
BatchRound(round, documents, engines, n, options, results) ==
    batch_results(round.self, documents, engines, n + 1, options,
                  Append(results, round.entry))

batch_results(self, documents, engines, n, options, results) ==
    IF n > Len(documents)
    THEN [results |-> results, self |-> self]
    ELSE BatchRound(batch_document(self, documents[n], n - 1, options, engines[n]),
                    documents, engines, n, options, results)

\* A faulty variant: every entry counts as a successful conversion.
successful_conversions_CountsEveryEntry(results) == Len(results)

\* len([r for r in results if r.get("result", {}).get("success", False)])
successful_conversions(results) ==
    Cardinality({n \in DOMAIN results :
                    GetAttr(GetAttr(results[n], "result", EmptyDict), "success", FALSE)})

BatchAnswer(documents, batch) ==
    [response |-> [success |-> TRUE,
                   results |-> batch.results,
                   total_documents |-> Len(documents),
                   successful_conversions |-> successful_conversions(batch.results)],
     self |-> batch.self]

handle_batch_conversion(self, input_data, engines) ==
    LET documents == GetAttr(input_data, "documents", << >>)
        options   == [output_format |-> GetAttr(input_data, "output_format", "markdown"),
                      include_images |-> GetAttr(input_data, "include_images", TRUE),
                      include_tables |-> GetAttr(input_data, "include_tables", TRUE)]
    IN  IF Len(documents) = 0
        THEN [response |-> Failure("No documents provided in batch"), self |-> self]
        ELSE BatchAnswer(documents,
                         batch_results(self, documents, engines, 1, options, << >>))

\* A faulty variant: an input with none of the keys is answered like a
\* model-info request.
Dispatch_FallsThrough(self, input_data, engine) ==
    IF HasAttr(input_data, "document_url")
    THEN handle_url_conversion(self, input_data, engine)
    ELSE IF HasAttr(input_data, "document_base64")
    THEN handle_base64_conversion(self, input_data, engine)
    ELSE handle_model_info_request(self)

\* The dispatch of handler, after the input is known not to be empty.
Dispatch(self, input_data, engine) ==
    IF HasAttr(input_data, "document_url")
    THEN handle_url_conversion(self, input_data, engine)
    ELSE IF HasAttr(input_data, "document_base64")
    THEN handle_base64_conversion(self, input_data, engine)
    ELSE IF HasAttr(input_data, "get_model_info")
    THEN handle_model_info_request(self)
    ELSE [response |-> Failure("Either 'document_url', 'document_base64', or 'get_model_info' must be provided"),
          self |-> self, call |-> NoCall]

\* A faulty variant: a new handler is built and initialized on every
\* request.
initialize_handler_EveryRequest(global_handler, load) ==
    initialize(DoclingHandler, load)

\* A faulty variant: the handler is built and initialized again whenever
\* one of its models is missing.
initialize_handler_WhenModelMissing(global_handler, load) ==
    IF \/ global_handler = None
       \/ ~global_handler.image_model_loaded
       \/ ~global_handler.formula_model_loaded
    THEN initialize(DoclingHandler, load)
    ELSE [raised |-> FALSE, self |-> global_handler]

\* initialize_handler on the global docling_handler (global_handler): the
\* handler is built and initialized when there is none.  The global is
\* assigned before initialize() runs, so it keeps the new object also when
\* initialize() raises.
initialize_handler(global_handler, load) ==
    IF global_handler = None
    THEN initialize(DoclingHandler, load)
    ELSE [raised |-> FALSE, self |-> global_handler]

\* handler(event): initialize_handler, then the validation and the
\* dispatch.  An exception of initialize_handler is answered by handler's
\* own except branch.
handler(global_handler, event, engine) ==
    LET init       == initialize_handler(global_handler, engine.load)
        input_data == GetAttr(event, "input", EmptyDict)
    IN  IF init.raised
        THEN [response |-> Failure(init.error), self |-> init.self, call |-> NoCall]
        ELSE IF DOMAIN input_data = {}
        THEN [response |-> Failure("No input data provided"),
              self |-> init.self, call |-> NoCall]
        ELSE Dispatch(init.self, input_data, engine)

(***************************************************************************)
(* State.                                                                  *)
(*   docling_handler  the global handler object of handler.py, or None     *)
(*   event            the event of the last request, or None               *)
(*   response         what handler returned for it, or None                *)
(*   call             the convert_document call the last request made      *)
(*   probe            an earlier convert_document call that returned (its  *)
(*                    arguments, what the collaborators did and its        *)
(*                    result), kept to compare later calls with, and the   *)
(*                    number of requests served since (counted up to two)  *)
(*   temp_files       the temporary files of the conversions that exist in *)
(*                    the file system                                      *)
(***************************************************************************)
VARIABLES docling_handler, event, response, call, probe, temp_files

vars == <<docling_handler, event, response, call, probe, temp_files>>

(***************************************************************************)
(* Inputs of the request-level specification.                              *)
(***************************************************************************)
Stages ==
    <<"image_descriptions", "formula_enrichment", "table_analysis",
      "content_enhancement", "structure_analysis">>

StageNames == {Stages[n] : n \in DOMAIN Stages}

NoFaults == [stages |-> {}, images |-> {}, formulas |-> {}, tables |-> {}, readability |-> FALSE]

\* The converter objects the library may build: one whose format option
\* has no ocr_params, one whose format option has them.
Converters ==
    {[type |-> "DocumentConverter",
      format_options |-> [pdf |-> [do_ocr |-> TRUE, do_table_structure |-> TRUE]]],
     [type |-> "DocumentConverter",
      format_options |-> [pdf |-> [do_ocr |-> TRUE, do_table_structure |-> TRUE,
                                   ocr_params |-> [languages |-> <<"eng">>]]]]}

\* What the libraries may do during one initialize(): the pipeline or the
\* converter raises, or the converter is built and each model loads or not.
Loads ==
    {[converter_raises |-> TRUE]}
    \cup [converter_raises : {FALSE}, converter : Converters,
          image_model : BOOLEAN, formula_model : BOOLEAN]

\* The load outcomes that matter to a request on handler h: none once the
\* handler is initialized, since initialize does not run again.
LoadsFor(h) ==
    IF h = None \/ ~h.model_loaded THEN Loads
    ELSE {[converter_raises |-> FALSE, converter |-> h.converter,
           image_model |-> FALSE, formula_model |-> FALSE]}

SampleImage == [captioning |-> "ok", caption |-> "a dog"]

SampleTable == [rows |-> 3, columns |-> 4]

SampleDocuments ==
    {[images |-> << >>, tables |-> << >>, elements |-> << >>,
      markdown |-> "Text.", html |-> "<p>Text.</p>"],
     [images |-> <<SampleImage>>, tables |-> <<SampleTable>>,
      elements |-> <<[label |-> "heading", text |-> "Title", level |-> 2]>>,
      markdown |-> "x = 1", html |-> "<p>x = 1</p>"]}

\* The name of the temporary file a base64 request writes.
TempPath == "/tmp/tmpa.pdf"

RequestFaults == {NoFaults, [NoFaults EXCEPT !.stages = {"table_analysis"}]}

Base64Inputs ==
    {[document_base64 |-> "dGVzdA==", filename |-> "test.pdf"],
     [document_base64 |-> "dGVzdA==", output_format |-> "html",
      include_image_descriptions |-> FALSE, ocr_languages |-> << >>],
     [document_base64 |-> "dGVzdA", filename |-> "test.pdf"]}

UrlInputs ==
    {[document_url |-> "https://example.org/dummy.pdf", output_format |-> "markdown",
      include_images |-> TRUE, include_tables |-> TRUE],
     [document_url |-> "https://example.org/dummy.pdf", output_format |-> "html",
      include_images |-> FALSE, include_tables |-> FALSE,
      include_image_descriptions |-> FALSE, include_formula_enrichment |-> FALSE,
      enhance_content |-> FALSE]}

\* Inputs with none of the keys the dispatch knows, and the model-info one.
OtherInputs ==
    {[invalid_field |-> "test"],
     [documents |-> <<[url |-> "https://example.org/dummy.pdf"]>>],
     [get_model_info |-> TRUE]}

\* The events with an empty input: no input key, or an empty dict.
EmptyEvents == {[id |-> "job"], [id |-> "job", input |-> EmptyDict]}

Event(input_data) == [id |-> "job", input |-> input_data]

\* The recognized keys of handler's dispatch.
RecognizedKeys == {"document_url", "document_base64", "get_model_info"}

(***************************************************************************)
(* Actions of the request-level specification.                             *)
(***************************************************************************)
Init ==
    /\ docling_handler = None
    /\ event = None
    /\ response = None
    /\ call = None
    /\ probe = None
    /\ temp_files = {}

\* The probe after a request that made call c: a returned call may become
\* the probe when there is none; an existing probe counts the request.
NextProbe(c) ==
    IF probe = None
    THEN IF c.type = "convert_document" /\ ~c.raised
         THEN {None, [args |-> c.args, document |-> c.document, faults |-> c.faults,
                      result |-> c.result, served |-> 0]}
         ELSE {None}
    ELSE {[probe EXCEPT !.served = IF @ < 2 THEN @ + 1 ELSE @]}

\* One request: handler(ev) with the collaborators behaving as engine says.
\* No write to a temporary file fails here, so the file a conversion writes
\* is unlinked again before handler returns.
Serve(ev, engine) ==
    \E out \in {handler(docling_handler, ev, engine)} :
        /\ docling_handler' = out.self
        /\ event' = ev
        /\ response' = out.response
        /\ call' = out.call
        /\ probe' \in NextProbe(out.call)
        /\ UNCHANGED temp_files

\* A request with a non-empty input that reaches no conversion: only the
\* load outcome matters.
Request ==
    \E input_data \in OtherInputs, load \in LoadsFor(docling_handler) :
        Serve(Event(input_data), [load |-> load])

\* A request with a document_url: the download and the converter do what
\* download_raises and convert_raises say.
RequestUrl ==
    \E input_data \in UrlInputs, load \in LoadsFor(docling_handler),
       download_raises \in BOOLEAN, convert_raises \in BOOLEAN :
        Serve(Event(input_data),
              [load |-> load, download_raises |-> download_raises,
               convert_raises |-> convert_raises,
               document |-> CHOOSE document \in SampleDocuments : Len(document.images) > 0,
               faults |-> NoFaults, temp_path |-> TempPath])

RequestEmptyInput ==
    \E ev \in EmptyEvents, load \in LoadsFor(docling_handler) :
        Serve(ev, [load |-> load])

RequestBase64 ==
    \E input_data \in Base64Inputs, load \in LoadsFor(docling_handler),
       convert_raises \in BOOLEAN, document \in SampleDocuments,
       faults \in RequestFaults :
        Serve(Event(input_data),
              [load |-> load, convert_raises |-> convert_raises,
               document |-> document, faults |-> faults, temp_path |-> TempPath])

Next == Request \/ RequestEmptyInput \/ RequestUrl \/ RequestBase64

Spec == Init /\ [][Next]_vars

(***************************************************************************)
(* The orchestrator-level specification: one convert_document call on a    *)
(* ready handler, over every combination of the feature flags and the      *)
(* readiness flags, and over documents whose items fail one by one.        *)
(***************************************************************************)
\* The handlers an initialize() that did not raise leaves behind.
ReadyHandlers ==
    {[converter |-> c, model_loaded |-> TRUE,
      image_model_loaded |-> i, formula_model_loaded |-> f] :
        c \in {k \in Converters : HasAttr(k.format_options.pdf, "ocr_params")},
        i \in BOOLEAN, f \in BOOLEAN}

FeatureFlags ==
    [include_images : BOOLEAN, include_tables : BOOLEAN,
     include_image_descriptions : BOOLEAN, include_formula_enrichment : BOOLEAN,
     enhance_content : BOOLEAN]

AllFlags ==
    [include_images |-> TRUE, include_tables |-> TRUE,
     include_image_descriptions |-> TRUE, include_formula_enrichment |-> TRUE,
     enhance_content |-> TRUE]

\* The keyword arguments of one call.
Arguments(flags, output_format) ==
    [file_path |-> TempPath, output_format |-> output_format,
     include_images |-> flags.include_images,
     include_tables |-> flags.include_tables,
     include_image_descriptions |-> flags.include_image_descriptions,
     include_formula_enrichment |-> flags.include_formula_enrichment,
     ocr_languages |-> <<"fra", "eng">>,
     enhance_content |-> flags.enhance_content]

\* Stage-level failures: none, one stage, or every stage.
StageFaultSets == {{}} \cup {{n} : n \in StageNames} \cup {StageNames}

\* Inputs over the flags: every flag combination, both output formats, a
\* document without items and one with an item of each kind.
FlagInputs ==
    {[args |-> Arguments(flags, output_format), document |-> document,
      faults |-> [NoFaults EXCEPT !.stages = stages]] :
        flags \in FeatureFlags, output_format \in {"markdown", "HTML"},
        document \in SampleDocuments, stages \in StageFaultSets}

\* The items a document is made of.
ImageKinds ==
    {SampleImage, [captioning |-> "raises"]}

TableKinds ==
    {SampleTable, [columns |-> 2], [error |-> "table has no data"]}

ElementKinds ==
    {[label |-> "heading", text |-> "Title", level |-> 2],
     [label |-> "list", text |-> "item"],
     [text |-> "paragraph"]}

\* Texts with no, one, two and three formula matches.
FormulaTexts == <<"Text.", "x = 1", "$a$ 2+2", "$a$ 2+2 y<3">>

SeqsUpTo(S, n) == UNION {[1..k -> S] : k \in 0..n}

\* The documents with at most MaxItems items in all, and one that exposes
\* none of the three collections.
ItemDocuments ==
    {[images |-> images, tables |-> tables, elements |-> elements,
      markdown |-> FormulaTexts[formulas + 1],
      html |-> "<p>" \o FormulaTexts[formulas + 1] \o "</p>"] :
        images \in SeqsUpTo(ImageKinds, MaxItems),
        tables \in SeqsUpTo(TableKinds, MaxItems),
        elements \in SeqsUpTo(ElementKinds, MaxItems),
        formulas \in 0..(Len(FormulaTexts) - 1)}

BoundedDocuments ==
    {d \in ItemDocuments :
        Len(d.images) + Len(d.tables) + Len(d.elements)
            + Len(math_matches(d.markdown)) <= MaxItems}
    \cup {[markdown |-> "Text.", html |-> "<p>Text.</p>"]}

\* Item-level failures of a document: any of its images, formula matches
\* and tables may raise in its turn of the loop, and so may the readability
\* computation.
ItemFaults(document) ==
    [stages : {{}},
     images : SUBSET (0..(Len(GetAttr(document, "images", << >>)) - 1)),
     formulas : SUBSET (0..(Len(math_matches(document.markdown)) - 1)),
     tables : SUBSET (0..(Len(GetAttr(document, "tables", << >>)) - 1)),
     readability : BOOLEAN]

\* Inputs over the items: every flag set.
ItemInputs ==
    UNION {{[args |-> Arguments(AllFlags, "markdown"), document |-> document,
             faults |-> faults] : faults \in ItemFaults(document)} :
           document \in BoundedDocuments}

EnrichInputs == FlagInputs \cup ItemInputs

InitEnrich ==
    /\ docling_handler \in ReadyHandlers
    /\ event = None
    /\ response = None
    /\ call \in {[type |-> "arguments", args |-> input.args,
                  document |-> input.document, faults |-> input.faults] :
                    input \in EnrichInputs}
    /\ probe = None
    /\ temp_files = {}

\* docling_handler.convert_document(**call.args), the converter returning
\* call.document and the faults being call.faults.
ConvertDocument ==
    /\ call.type = "arguments"
    /\ \E engine \in {[load |-> CHOOSE load \in LoadsFor(docling_handler) : TRUE,
                        convert_raises |-> FALSE,
                        document |-> call.document, faults |-> call.faults]} :
       \E r \in {convert_document(docling_handler, call.args, engine)} :
          /\ call' = CallRecord(docling_handler, call.args, engine, r)
          /\ docling_handler' = r.self
    /\ UNCHANGED <<event, response, probe, temp_files>>

NextEnrich == ConvertDocument

SpecEnrich == InitEnrich /\ [][NextEnrich]_vars

(***************************************************************************)
(* The function-level specification: one call of an enricher's function    *)
(* (_enrich_single_formula, _analyze_single_table, _calculate_readability, *)
(* _enhance_content) on an input drawn from a bounded set.  `call` holds   *)
(* the function and its input, `response` what it returned.                *)
(***************************************************************************)
\* The most tokens a text of the function-level inputs is made of.
MaxTokens == 3

\* The largest row count and column count of a table.
MaxCount == 4

\* The texts made of at most n of the tokens.
RECURSIVE TextsOf(_, _)
TextsOf(tokens, n) ==
    IF n = 0 THEN {""}
    ELSE LET shorter == TextsOf(tokens, n - 1)
         IN  shorter \cup {t \o rest : t \in tokens, rest \in shorter}

FormulaTokens == {"x", "+", "-", "=", "^", "*", "$", "\\(", "\\", "["}

FormulaExamples == {"5 + 3", "x = 5", "x^2", "hello"}

\* Arguments that are no str: formula.replace raises on them.
NonTextFormulas == {0, 42}

FormulaCalls ==
    {[type |-> "enrich_single_formula", formula |-> formula] :
        formula \in TextsOf(FormulaTokens, MaxTokens) \cup FormulaExamples}
    \cup {[type |-> "enrich_single_formula", formula |-> formula, python_type |-> "int"] :
            formula \in NonTextFormulas}

\* Tables that expose both counts, one of them or none, and one whose
\* attributes raise when they are read.
CountedTables ==
    {[rows |-> rows, columns |-> columns] : rows \in 0..MaxCount, columns \in 0..MaxCount}
    \cup {[rows |-> rows] : rows \in 0..MaxCount}
    \cup {[columns |-> columns] : columns \in 0..MaxCount}
    \cup {[data |-> "grid"], [error |-> "table has no data"]}

TableCalls ==
    {[type |-> "analyze_single_table", table |-> table, index |-> index] :
        table \in CountedTables, index \in 0..1}

ReadabilityTokens == {"a", "bb", " ", ".", "\n"}

ReadabilityCalls ==
    {[type |-> "calculate_readability", text |-> text, raises |-> raises] :
        text \in TextsOf(ReadabilityTokens, MaxTokens), raises \in BOOLEAN}

ContentTokens == {"Table", "|", "an image", "IMAGE", "$", "\\[", "\\(", "x "}

ContentExamples == {"a table with | data and an image and $x$"}

ContentCalls ==
    {[type |-> "enhance_content", content |-> content] :
        content \in TextsOf(ContentTokens, MaxTokens) \cup ContentExamples}

\* Documents whose elements are headings and lists with and without their
\* optional attributes, an element with another label and one with none;
\* a document that exposes no elements; and whether the analysis raises.
StructureCalls ==
    {[type |-> "analyze_document_structure", document |-> document, raises |-> raises] :
        document \in {[elements |-> elements] :
                         elements \in SeqsUpTo({[label |-> "heading", text |-> "Title", level |-> 2],
                                                [label |-> "heading"],
                                                [label |-> "list", text |-> "One", list_type |-> "numbered"],
                                                [label |-> "list", text |-> "Two"],
                                                [label |-> "paragraph", text |-> "Body", level |-> 3],
                                                [text |-> "Plain"]}, MaxItems)}
                      \cup {[markdown |-> "Text."]},
        raises \in BOOLEAN}

\* Captions with a table key in lower case, with one in capitals, with
\* two keys and with none.
TranslationCalls ==
    {[type |-> "translate_to_french", text |-> text] :
        text \in TextsOf({"a dog", "A Dog", "a cat", " and ", "x"}, MaxTokens)}

InitFunctions ==
    /\ docling_handler = DoclingHandler
    /\ event = None
    /\ response = None
    /\ call \in FormulaCalls \cup TableCalls \cup ReadabilityCalls \cup ContentCalls
                \cup TranslationCalls \cup StructureCalls
    /\ probe = None
    /\ temp_files = {}

\* await self._enrich_single_formula(call.formula)
EnrichSingleFormula ==
    /\ call.type = "enrich_single_formula"
    /\ response = None
    /\ response' = enrich_single_formula(call.formula, ~HasAttr(call, "python_type"))
    /\ UNCHANGED <<docling_handler, event, call, probe, temp_files>>

\* await self._analyze_single_table(call.table, call.index)
AnalyzeSingleTable ==
    /\ call.type = "analyze_single_table"
    /\ response = None
    /\ response' = analyze_single_table(call.table, call.index)
    /\ UNCHANGED <<docling_handler, event, call, probe, temp_files>>

\* self._calculate_readability(call.text)
CalculateReadability ==
    /\ call.type = "calculate_readability"
    /\ response = None
    /\ response' = calculate_readability(call.text, call.raises)
    /\ UNCHANGED <<docling_handler, event, call, probe, temp_files>>

\* await self._enhance_content({"content": call.content})
EnhanceContent ==
    /\ call.type = "enhance_content"
    /\ response = None
    /\ response' = enhance_content(docling_handler, [content |-> call.content], NoFaults)
    /\ UNCHANGED <<docling_handler, event, call, probe, temp_files>>

\* self._translate_to_french(call.text)
TranslateToFrench ==
    /\ call.type = "translate_to_french"
    /\ response = None
    /\ response' = [text |-> translate_to_french(call.text)]
    /\ UNCHANGED <<docling_handler, event, call, probe, temp_files>>

\* await self._analyze_document_structure(result, {"content": ""}), with
\* result.document = call.document
AnalyzeDocumentStructure ==
    /\ call.type = "analyze_document_structure"
    /\ response = None
    /\ response' = analyze_document_structure(docling_handler,
                        [document |-> call.document], [content |-> ""],
                        [NoFaults EXCEPT !.stages =
                            IF call.raises THEN {"structure_analysis"} ELSE {}])
    /\ UNCHANGED <<docling_handler, event, call, probe, temp_files>>

NextFunctions ==
    \/ EnrichSingleFormula
    \/ AnalyzeSingleTable
    \/ CalculateReadability
    \/ EnhanceContent
    \/ TranslateToFrench
    \/ AnalyzeDocumentStructure

SpecFunctions == InitFunctions /\ [][NextFunctions]_vars

(***************************************************************************)
(* The method-level specification: is_ready, convert_document and cleanup  *)
(* called directly on one DoclingHandler, in any order.  `response` holds  *)
(* the last answer of is_ready, `call` the last convert_document call, and *)
(* `probe` records that cleanup has run on the initialized handler.        *)
(***************************************************************************)
\* What the libraries may do during an initialize() of this handler.
MethodLoads ==
    {load \in Loads :
        load.converter_raises
        \/ (HasAttr(load.converter.format_options.pdf, "ocr_params") /\ load.formula_model)}

MethodInputs ==
    {[args |-> Arguments(flags, "markdown"),
      document |-> CHOOSE document \in SampleDocuments : Len(document.images) > 0] :
        flags \in {AllFlags, [AllFlags EXCEPT !.include_tables = FALSE]}}

InitMethods ==
    /\ docling_handler = DoclingHandler
    /\ event = None
    /\ response = None
    /\ call = None
    /\ probe = None
    /\ temp_files = {}

\* await docling_handler.is_ready()
CallIsReady ==
    /\ \E load \in MethodLoads :
       \E r \in {is_ready(docling_handler, load)} :
          /\ response' = [type |-> "is_ready", value |-> r.value, before |-> docling_handler]
          /\ docling_handler' = r.self
    /\ UNCHANGED <<event, call, probe, temp_files>>

\* await docling_handler.convert_document(**input.args)
CallConvertDocument ==
    /\ \E input \in MethodInputs, load \in MethodLoads, convert_raises \in BOOLEAN :
       \E engine \in {[load |-> load, convert_raises |-> convert_raises,
                        document |-> input.document, faults |-> NoFaults]} :
       \E r \in {convert_document(docling_handler, input.args, engine)} :
          /\ call' = CallRecord(docling_handler, input.args, engine, r)
          /\ docling_handler' = r.self
    /\ UNCHANGED <<event, response, probe, temp_files>>

\* await docling_handler.cleanup()
CallCleanup ==
    /\ docling_handler' = cleanup(docling_handler)
    /\ probe' = IF docling_handler.model_loaded THEN [type |-> "cleanup"] ELSE probe
    /\ UNCHANGED <<event, response, call, temp_files>>

NextMethods == CallIsReady \/ CallConvertDocument \/ CallCleanup

SpecMethods == InitMethods /\ [][NextMethods]_vars

(***************************************************************************)
(* The batch specification: one handle_batch_conversion call with the      *)
(* global handler initialized.  `event` holds the input, `call` which of   *)
(* the documents the converter fails on, `response` what the call returns. *)
(***************************************************************************)
MaxDocuments == 2

\* The documents of a batch: a URL, embedded bytes, badly padded embedded
\* bytes, a mapping with neither key, and a document that is no mapping.
BatchDocuments ==
    {[url |-> "https://example.org/dummy.pdf"],
     [base64 |-> "dGVzdA=="],
     [base64 |-> "dGVzdA", filename |-> "test.pdf"],
     [name |-> "dummy.pdf"],
     [python_type |-> "int"]}

BatchInputs ==
    {[documents |-> documents] : documents \in SeqsUpTo(BatchDocuments, MaxDocuments)}
    \cup {[documents |-> <<[base64 |-> "dGVzdA=="]>>, output_format |-> "html"]}

InitBatch ==
    /\ docling_handler \in ReadyHandlers
    /\ event \in BatchInputs
    /\ response = None
    /\ call \in {[type |-> "handle_batch_conversion", raising |-> n] : n \in 0..MaxDocuments}
    /\ probe = None
    /\ temp_files = {}

\* What the collaborators do for each document of the batch: the converter
\* raises on document number call.raising, if any.
BatchEngines ==
    [n \in 1..MaxDocuments |->
        [load |-> CHOOSE load \in LoadsFor(docling_handler) : TRUE,
         download_raises |-> FALSE,
         convert_raises |-> (n = call.raising),
         document |-> CHOOSE document \in SampleDocuments : Len(document.images) > 0,
         faults |-> NoFaults,
         temp_path |-> TempPath]]

BatchConversion ==
    /\ response = None
    /\ \E out \in {handle_batch_conversion(docling_handler, event, BatchEngines)} :
          /\ response' = out.response
          /\ docling_handler' = out.self
    /\ UNCHANGED <<event, call, probe, temp_files>>

NextBatch == BatchConversion

SpecBatch == InitBatch /\ [][NextBatch]_vars

(***************************************************************************)
(* The file-level specification: handle_base64_conversion, and             *)
(* convert_from_url called with the keywords it takes, on an initialized   *)
(* handler, each with a fresh temporary file name; the converter may raise *)
(* and a write to the temporary file may fail.                             *)
(***************************************************************************)
\* The names tempfile may give.
TempPaths == {TempPath, "/tmp/tmpb.pdf"}

InitFiles ==
    /\ docling_handler \in ReadyHandlers
    /\ event = None
    /\ response = None
    /\ call = None
    /\ probe = None
    /\ temp_files = {}

FileEngines ==
    {[load |-> CHOOSE load \in LoadsFor(docling_handler) : TRUE,
      download_raises |-> download_raises,
      write_raises |-> write_raises,
      convert_raises |-> convert_raises,
      document |-> CHOOSE document \in SampleDocuments : Len(document.images) > 0,
      faults |-> NoFaults,
      temp_path |-> temp_path] :
        download_raises \in BOOLEAN, write_raises \in BOOLEAN,
        convert_raises \in BOOLEAN, temp_path \in TempPaths \ temp_files}

Base64Conversion ==
    /\ \E input_data \in Base64Inputs :
       \E engine \in {e \in FileEngines : ~e.download_raises} :
       \E out \in {handle_base64_conversion(docling_handler, input_data, engine)} :
          /\ docling_handler' = out.self
          /\ event' = Event(input_data)
          /\ response' = out.response
          /\ call' = out.call
          /\ temp_files' = base64_temp_files(temp_files, input_data, engine)
    /\ UNCHANGED probe

UrlConversion ==
    /\ \E input_data \in UrlInputs, engine \in FileEngines :
       \E kwargs \in {[url |-> input_data.document_url,
                        output_format |-> input_data.output_format,
                        include_images |-> input_data.include_images,
                        include_tables |-> input_data.include_tables]} :
       \E r \in {convert_from_url(docling_handler, kwargs, engine)} :
          /\ docling_handler' = r.self
          /\ event' = Event(input_data)
          /\ response' = IF r.raised THEN [raised |-> TRUE, error |-> r.error] ELSE r.value
          /\ call' = UrlCallRecord(kwargs, engine, r)
          /\ temp_files' = url_temp_files(temp_files, engine)
    /\ UNCHANGED probe

NextFiles == Base64Conversion \/ UrlConversion

SpecFiles == InitFiles /\ [][NextFiles]_vars

(***************************************************************************)
(* Properties.  They speak of the call recorded in `call`: its arguments,  *)
(* the document the converter returned, the faults, the handler before and *)
(* after, and the aggregate result.                                        *)
(***************************************************************************)
IsCall == call.type = "convert_document"

Returned == IsCall /\ ~call.raised

InSeq(x, seq) == \E k \in DOMAIN seq : seq[k] = x

\* The key of the aggregate under which each stage stores its collection.
CollectionOf ==
    [image_descriptions |-> "image_descriptions",
     formula_enrichment |-> "formula_enrichments",
     table_analysis |-> "table_analysis",
     content_enhancement |-> "content_enhancement",
     structure_analysis |-> "document_structure"]

\* The recorded call runs stage n: its condition in convert_document holds.
StageRuns(n) ==
    CASE n = "image_descriptions" ->
            /\ call.args.include_images
            /\ call.args.include_image_descriptions
            /\ call.before.image_model_loaded
      [] n = "formula_enrichment" ->
            call.args.include_formula_enrichment /\ call.before.formula_model_loaded
      [] n = "table_analysis" -> call.args.include_tables
      [] n = "content_enhancement" -> call.args.enhance_content
      [] n = "structure_analysis" -> TRUE

StagePosition(n) == CHOOSE k \in DOMAIN Stages : Stages[k] = n

\* The images of the recorded call's document.
CallImages == GetAttr(call.document, "images", << >>)

\* The document of the recorded call has no image, and reading its images
\* does not fail.
ZeroImages ==
    Len(CallImages) = 0 /\ "image_descriptions" \notin call.faults.stages

\* C1 (as amended): whatever items fail inside the stages, features_used
\* holds names of stages only, and holds image_descriptions exactly when
\* include_images and include_image_descriptions are true and the
\* captioning model is loaded, formula_enrichment exactly when
\* include_formula_enrichment is true and the formula model is loaded,
\* table_analysis exactly when include_tables is true, content_enhancement
\* exactly when enhance_content is true, and structure_analysis always.
C1_FeaturesUsedExact ==
    Returned =>
        LET used == call.result.metadata.features_used
        IN  /\ \A k \in DOMAIN used : used[k] \in StageNames
            /\ InSeq("image_descriptions", used)
                 <=> (/\ call.args.include_images
                      /\ call.args.include_image_descriptions
                      /\ call.before.image_model_loaded)
            /\ InSeq("formula_enrichment", used)
                 <=> (/\ call.args.include_formula_enrichment
                      /\ call.before.formula_model_loaded)
            /\ InSeq("table_analysis", used) <=> call.args.include_tables
            /\ InSeq("content_enhancement", used) <=> call.args.enhance_content
            /\ InSeq("structure_analysis", used)

\* A call in which the captioning of an image raised and a table failed in
\* its turn of the loop, and both stages are listed.
C1_Witness ==
    /\ Returned
    /\ \E k \in DOMAIN CallImages : CallImages[k].captioning = "raises"
    /\ call.faults.tables # {}
    /\ InSeq("image_descriptions", call.result.metadata.features_used)
    /\ InSeq("table_analysis", call.result.metadata.features_used)

\* C1 as first stated: image_descriptions is listed exactly when
\* include_image_descriptions is true and the captioning model is loaded
\* (the other stages as above).
C1_FlagAndReadinessOnly ==
    Returned =>
        LET used == call.result.metadata.features_used
        IN  /\ InSeq("image_descriptions", used)
                 <=> (/\ call.args.include_image_descriptions
                      /\ call.before.image_model_loaded)
            /\ InSeq("formula_enrichment", used)
                 <=> (/\ call.args.include_formula_enrichment
                      /\ call.before.formula_model_loaded)
            /\ InSeq("table_analysis", used) <=> call.args.include_tables
            /\ InSeq("content_enhancement", used) <=> call.args.enhance_content

\* C2: a stage whose body fails as a whole adds no collection to the
\* aggregate and its name is absent from features_used.
C2_FailedStageOmitted ==
    Returned =>
        \A n \in call.faults.stages :
            /\ ~HasAttr(call.result, CollectionOf[n])
            /\ ~InSeq(n, call.result.metadata.features_used)

\* C3: a failure inside a stage never makes convert_document raise: the
\* call returns the aggregate with the converted content, and every stage
\* that runs after a failed one and does not fail itself has its collection
\* in the aggregate and its name in features_used.
C3_StageFailureContained ==
    IsCall =>
        /\ ~call.raised
        /\ call.result.content =
              (IF lower(call.args.output_format) = "html"
               THEN call.document.html ELSE call.document.markdown)
        /\ \A m, n \in DOMAIN Stages :
              (/\ m < n
               /\ Stages[m] \in call.faults.stages /\ StageRuns(Stages[m])
               /\ Stages[n] \notin call.faults.stages /\ StageRuns(Stages[n]))
              => /\ HasAttr(call.result, CollectionOf[Stages[n]])
                 /\ InSeq(Stages[n], call.result.metadata.features_used)

\* The image stage ran and failed as a whole, and the table stage after it
\* stored its collection.
C3_Witness ==
    /\ Returned
    /\ "image_descriptions" \in call.faults.stages
    /\ StageRuns("image_descriptions")
    /\ "table_analysis" \notin call.faults.stages
    /\ HasAttr(call.result, "table_analysis")
    /\ Len(call.result.table_analysis) > 0

\* C4: the names in features_used are in the fixed stage order, each at most
\* once.
C4_FixedStageOrder ==
    Returned =>
        LET used == call.result.metadata.features_used
        IN  /\ \A k \in DOMAIN used : used[k] \in StageNames
            /\ \A i, j \in DOMAIN used :
                  i < j => StagePosition(used[i]) < StagePosition(used[j])

\* All five stages listed, one of them having failed as a whole.
C4_Witness ==
    /\ Returned
    /\ Len(call.result.metadata.features_used) = Len(Stages)
    /\ call.faults.stages # {}

\* C5: when the document has one image and the captioning call for it
\* raises, image_descriptions holds the one fallback record and the stage
\* is in features_used.
C5_CaptioningFailureFallback ==
    (/\ Returned
     /\ Len(CallImages) = 1
     /\ CallImages[1].captioning = "raises"
     /\ StageRuns("image_descriptions")
     /\ "image_descriptions" \notin call.faults.stages)
    => /\ call.result.image_descriptions =
            << [index |-> 0,
                description_fr |-> "Description non disponible",
                description_en |-> "Description not available"] >>
       /\ InSeq("image_descriptions", call.result.metadata.features_used)

C7_EmptyCollectionListed ==
    (/\ Returned
     /\ ZeroImages
     /\ call.args.include_image_descriptions
     /\ call.args.include_images
     /\ call.before.image_model_loaded)
    => /\ HasAttr(call.result, "image_descriptions")
       /\ call.result.image_descriptions = << >>
       /\ InSeq("image_descriptions", call.result.metadata.features_used)

\* Such a call, of a document that exposes an empty images collection.
C7_Witness ==
    /\ Returned
    /\ HasAttr(call.document, "images")
    /\ ZeroImages
    /\ call.args.include_image_descriptions
    /\ call.args.include_images
    /\ call.before.image_model_loaded
    /\ HasAttr(call.result, "image_descriptions")

\* C7 as first stated: zero images and include_image_descriptions true are
\* enough.
C7_DescriptionsFlagOnly ==
    (/\ Returned
     /\ ZeroImages
     /\ call.args.include_image_descriptions)
    => /\ HasAttr(call.result, "image_descriptions")
       /\ call.result.image_descriptions = << >>
       /\ InSeq("image_descriptions", call.result.metadata.features_used)

\* C8: a convert_document call that returns, made after an earlier one that
\* returned, with the same arguments, the same conversion result and the
\* same behaviour of the collaborators, returns the same aggregate,
\* whatever requests were served in between.
C8_SameCallSameResult ==
    (/\ probe # None
     /\ probe.served >= 1
     /\ Returned
     /\ call.args = probe.args
     /\ call.document = probe.document
     /\ call.faults = probe.faults)
    => call.result = probe.result

\* The second of two such calls, one other request served in between, the
\* aggregate holding image descriptions.
C8_Witness ==
    /\ probe # None
    /\ probe.served = 2
    /\ Returned
    /\ call.args = probe.args
    /\ call.document = probe.document
    /\ call.faults = probe.faults
    /\ HasAttr(call.result, "image_descriptions")
    /\ Len(call.result.image_descriptions) > 0

\* C9: a convert_document call leaves every field of the handler and of the
\* shared converter configuration as it found it.
C9_HandlerUnchanged ==
    IsCall => call.after = call.before

\* C10: a request whose input is missing or empty, or holds none of the
\* recognized keys, is answered with success false and an error message,
\* and makes no convert_document call.
C10_UnrecognizedInputFails ==
    (/\ event # None
     /\ DOMAIN GetAttr(event, "input", EmptyDict) \cap RecognizedKeys = {})
    => /\ response.success = FALSE
       /\ HasAttr(response, "error")
       /\ call = NoCall

\* A request with an unrecognized key only, on an initialized handler.
C10_Witness ==
    /\ event # None
    /\ HasAttr(event, "input")
    /\ DOMAIN event.input # {}
    /\ DOMAIN event.input \cap RecognizedKeys = {}
    /\ docling_handler # None
    /\ docling_handler.model_loaded
    /\ response.success = FALSE

\* The last request was served by a handler that initialize() had loaded.
ServedLoaded ==
    /\ event # None
    /\ docling_handler # None
    /\ docling_handler.model_loaded

\* C11: a request with document_url whose download and whose conversion
\* both succeed is answered with success true and the converted content,
\* whatever feature flags it carries.
C11_UrlRequestSucceeds ==
    (/\ ServedLoaded
     /\ HasAttr(GetAttr(event, "input", EmptyDict), "document_url")
     /\ call.type = "convert_from_url"
     /\ ~call.download_raises
     /\ ~call.convert_raises)
    => /\ response.success = TRUE
       /\ HasAttr(response, "content")

\* C12: a request whose input carries a non-empty documents list is
\* answered by the batch conversion: success true, total_documents the
\* length of the list, and a successful_conversions count.
C12_DocumentsRoutedToBatch ==
    (/\ ServedLoaded
     /\ HasAttr(GetAttr(event, "input", EmptyDict), "documents")
     /\ Len(event.input.documents) > 0)
    => /\ response.success = TRUE
       /\ HasAttr(response, "total_documents")
       /\ response.total_documents = Len(event.input.documents)
       /\ HasAttr(response, "successful_conversions")

\* The function called was f and it has returned.
Answered(f) == call.type = f /\ response # None

FormulaTypes == {"arithmetic", "equation", "exponential", "mathematical_expression"}

\* C13: the type of a text span is decided by the first check that matches
\* its cleaned form, in the order: '+' or '-' gives "arithmetic" (also
\* when '=' or '^' occur), else '=' gives "equation", else '^' or '**'
\* gives "exponential", else "mathematical_expression"; every span gets
\* exactly one of the four types.
C13_FirstMatchingCheckDecides ==
    (Answered("enrich_single_formula") /\ ~HasAttr(call, "python_type")) =>
        LET clean == clean_formula(call.formula)
            has(sub) == Contains(clean, sub)
        IN  /\ response.type \in FormulaTypes
            /\ (has("+") \/ has("-")) => response.type = "arithmetic"
            /\ (~has("+") /\ ~has("-") /\ has("=")) => response.type = "equation"
            /\ (~has("+") /\ ~has("-") /\ ~has("=") /\ (has("^") \/ has("**")))
                  => response.type = "exponential"
            /\ (~has("+") /\ ~has("-") /\ ~has("=") /\ ~has("^") /\ ~has("**"))
                  => response.type = "mathematical_expression"

\* A span with '+', '=' and '^' at once, typed "arithmetic".
C13_Witness ==
    /\ Answered("enrich_single_formula")
    /\ ~HasAttr(call, "python_type")
    /\ Contains(call.formula, "+")
    /\ Contains(call.formula, "=")
    /\ Contains(call.formula, "^")
    /\ response.type = "arithmetic"

\* The markers the content-kind checks look for in a text.
TableMarker(text) == Contains(lower(text), "table") \/ Contains(text, "|")

ImageMarker(text) == Contains(lower(text), "image") \/ Contains(text, "![image]")

FormulaMarker(text) ==
    Contains(text, "$") \/ Contains(text, "\\[") \/ Contains(text, "\\(")

\* C14: the content kind is decided by the last check that matches, in the
\* order table markers, image markers, formula markers: a text with a
\* formula marker is "document_with_formulas", else one with an image
\* marker is "document_with_images", else one with a table marker is
\* "document_with_tables", else "document".
C14_LastMatchingCheckDecides ==
    Answered("enhance_content") =>
        response.content_enhancement.content_type =
            (IF FormulaMarker(call.content) THEN "document_with_formulas"
             ELSE IF ImageMarker(call.content) THEN "document_with_images"
             ELSE IF TableMarker(call.content) THEN "document_with_tables"
             ELSE "document")

\* A text with all three kinds of marker, classified by its formula marker.
C14_Witness ==
    /\ Answered("enhance_content")
    /\ call.content = "a table with | data and an image and $x$"
    /\ response.content_enhancement.content_type = "document_with_formulas"

\* The decimal numeral of a count up to 9, as the f-string writes it.
Numeral(n) == CharAt("0123456789", n + 1)

\* C15: for every table whose attributes can be read and every index, the
\* summary record has rows and columns equal to the table's row and column
\* counts (0 for a count the table does not expose), has_headers true
\* exactly when rows > 0, and summary "Tableau de <rows> lignes et
\* <columns> colonnes" when both counts are non-zero, "" otherwise.
C15_TableSummary ==
    (Answered("analyze_single_table") /\ ~HasAttr(call.table, "error")) =>
        LET rows    == IF HasAttr(call.table, "rows") THEN call.table.rows ELSE 0
            columns == IF HasAttr(call.table, "columns") THEN call.table.columns ELSE 0
        IN  /\ response.index = call.index
            /\ response.rows = rows
            /\ response.columns = columns
            /\ response.has_headers = (rows > 0)
            /\ response.summary =
                  (IF rows # 0 /\ columns # 0
                   THEN "Tableau de " \o Numeral(rows) \o " lignes et "
                            \o Numeral(columns) \o " colonnes"
                   ELSE "")

\* The table of 3 rows and 4 columns at index 0, and its summary.
C15_Witness ==
    /\ Answered("analyze_single_table")
    /\ call.table = [rows |-> 3, columns |-> 4]
    /\ call.index = 0
    /\ response.rows = 3
    /\ response.columns = 4
    /\ response.has_headers
    /\ response.summary = "Tableau de 3 lignes et 4 colonnes"

\* C16: the single-formula enricher never raises: for every input, text or
\* not, it returns a record with a type and both descriptions, and for an
\* input on which its body raises (one that is no text) the record is the
\* reserved one: type "unknown", description_fr "Formule non reconnue",
\* description_en "Unrecognized formula".
C16_SingleFormulaNeverRaises ==
    Answered("enrich_single_formula") =>
        /\ ~HasAttr(response, "raised")
        /\ {"formula", "type", "description_fr", "description_en"} \subseteq DOMAIN response
        /\ HasAttr(call, "python_type") =>
              /\ response.type = "unknown"
              /\ response.description_fr = "Formule non reconnue"
              /\ response.description_en = "Unrecognized formula"
              /\ response.formula = call.formula

\* An input that is no text, answered with the reserved record.
C16_Witness ==
    /\ Answered("enrich_single_formula")
    /\ HasAttr(call, "python_type")
    /\ call.formula = 42
    /\ HasAttr(response, "type")
    /\ response.type = "unknown"

\* The score of the recorded readability call is the number num/den.
ScoreIs(num, den) == response.num * den = num * response.den

\* C17 (as amended): the readability score is 0.0 for every text that has
\* zero words and 50.0 when the computation raises; a text that has words
\* and no '.' is one sentence of W words and C word characters, and its
\* score is 100 - 0.5 * W - 2 * C / W, kept within 0 and 100.
C17_ZeroWordsOrRaises ==
    Answered("calculate_readability") =>
        LET W == WordCount(call.text, 1)
            C == WordChars(call.text, 1)
            score == 200 * W - W * W - 4 * C
        IN  /\ call.raises => ScoreIs(50, 1)
            /\ (~call.raises /\ W = 0) => ScoreIs(0, 1)
            /\ (~call.raises /\ W > 0 /\ ~Contains(call.text, ".")) =>
                  IF score <= 0 THEN ScoreIs(0, 1)
                  ELSE IF score >= 200 * W THEN ScoreIs(100, 1)
                  ELSE ScoreIs(score, 2 * W)

\* A text of two words and no full stop, scored above 0.0.
C17_Witness ==
    /\ Answered("calculate_readability")
    /\ ~call.raises
    /\ call.text = "a bb"
    /\ ScoreIs(96, 1)

\* C17 as first stated: the score is 0.0 also for every text that has no
\* '.' character.
C17_ZeroWithoutDelimiter ==
    Answered("calculate_readability") =>
        /\ call.raises => ScoreIs(50, 1)
        /\ (~call.raises /\ WordCount(call.text, 1) = 0) => ScoreIs(0, 1)
        /\ (~call.raises /\ ~Contains(call.text, ".")) => ScoreIs(0, 1)

\* No exception was raised anywhere during the recorded call: no stage
\* and no item failed, no captioning raised, no table raised when read.
NoException ==
    /\ call.faults = NoFaults
    /\ \A k \in DOMAIN CallImages : CallImages[k].captioning # "raises"
    /\ \A k \in DOMAIN GetAttr(call.document, "tables", << >>) :
          ~HasAttr(call.document.tables[k], "error")

\* C18 (as amended): absent any exception, the call returns and each
\* flag-controlled stage stores its collection exactly when its flags are
\* true and its model is loaded: image_descriptions iff include_images and
\* include_image_descriptions and the captioning model is loaded,
\* formula_enrichments iff include_formula_enrichment and the formula model
\* is loaded, table_analysis iff include_tables, content_enhancement iff
\* enhance_content.  A stage skipped for a model that is not loaded raises
\* no error.
C18_StageRunsOnItsCondition ==
    (IsCall /\ NoException) =>
        /\ ~call.raised
        /\ HasAttr(call.result, "image_descriptions")
              <=> (/\ call.args.include_images
                   /\ call.args.include_image_descriptions
                   /\ call.before.image_model_loaded)
        /\ HasAttr(call.result, "formula_enrichments")
              <=> (/\ call.args.include_formula_enrichment
                   /\ call.before.formula_model_loaded)
        /\ HasAttr(call.result, "table_analysis") <=> call.args.include_tables
        /\ HasAttr(call.result, "content_enhancement") <=> call.args.enhance_content

\* A call with every flag true on a handler whose formula model is not
\* loaded: the formula stage is skipped without an error and the others
\* store their collections.
C18_Witness ==
    /\ Returned
    /\ NoException
    /\ call.args.include_images
    /\ call.args.include_image_descriptions
    /\ call.args.include_formula_enrichment
    /\ call.args.include_tables
    /\ call.args.enhance_content
    /\ call.before.image_model_loaded
    /\ ~call.before.formula_model_loaded
    /\ HasAttr(call.result, "image_descriptions")
    /\ ~HasAttr(call.result, "formula_enrichments")
    /\ HasAttr(call.result, "table_analysis")
    /\ HasAttr(call.result, "content_enhancement")

\* C18 as first stated: image_descriptions is stored exactly when
\* include_image_descriptions is true and the captioning model is loaded,
\* and no other flag changes whether a stage runs.
C18_OwnFlagOnly ==
    (IsCall /\ NoException) =>
        /\ ~call.raised
        /\ HasAttr(call.result, "image_descriptions")
              <=> (/\ call.args.include_image_descriptions
                   /\ call.before.image_model_loaded)
        /\ HasAttr(call.result, "formula_enrichments")
              <=> (/\ call.args.include_formula_enrichment
                   /\ call.before.formula_model_loaded)
        /\ HasAttr(call.result, "table_analysis") <=> call.args.include_tables
        /\ HasAttr(call.result, "content_enhancement") <=> call.args.enhance_content

\* The text the recorded call exported from the conversion result.
ExportedContent ==
    IF lower(call.args.output_format) = "html"
    THEN call.document.html ELSE call.document.markdown

\* The aggregate of the recorded call before any stage has run.
FreshAggregate ==
    [content |-> ExportedContent,
     output_format |-> call.args.output_format,
     metadata |-> [file_path |-> call.args.file_path,
                   processing_time |-> None,
                   features_used |-> << >>]]

\* What stage n stores when it runs alone on the conversion result of the
\* recorded call, no other stage having run or failed.
StageAlone(n) ==
    LET result == [document |-> call.document]
        faults == [call.faults EXCEPT !.stages = @ \cap {n}]
    IN  CASE n = "image_descriptions" ->
                add_image_descriptions(call.before, result, FreshAggregate, faults)
          [] n = "formula_enrichment" ->
                enrich_formulas(call.before, result, FreshAggregate, faults)
          [] n = "table_analysis" ->
                analyze_tables(call.before, result, FreshAggregate, faults)
          [] n = "content_enhancement" ->
                enhance_content(call.before, FreshAggregate, faults)
          [] n = "structure_analysis" ->
                analyze_document_structure(call.before, result, FreshAggregate, faults)

\* C19: the stages do not depend on each other: the content and the
\* output_format of the aggregate are those of the conversion, whatever
\* stages ran, were skipped or failed; a stage's collection is in the
\* aggregate exactly when the stage ran and did not fail, and it then
\* holds the records the stage produces when it runs alone on the same
\* conversion result.
C19_StagesIndependent ==
    Returned =>
        /\ call.result.content = ExportedContent
        /\ call.result.output_format = call.args.output_format
        /\ \A n \in StageNames :
              /\ HasAttr(call.result, CollectionOf[n])
                    <=> (StageRuns(n) /\ n \notin call.faults.stages)
              /\ HasAttr(call.result, CollectionOf[n])
                    => call.result[CollectionOf[n]] = StageAlone(n)[CollectionOf[n]]

\* The table stage failed as a whole between the formula stage and the
\* content stage, which both stored what they store alone.
C19_Witness ==
    /\ Returned
    /\ call.faults.stages = {"table_analysis"}
    /\ call.args.include_tables
    /\ HasAttr(call.result, "formula_enrichments")
    /\ Len(call.result.formula_enrichments) > 0
    /\ HasAttr(call.result, "content_enhancement")
    /\ HasAttr(call.result, "image_descriptions")
    /\ Len(call.result.image_descriptions) > 0
    /\ ~HasAttr(call.result, "table_analysis")

\* C20: over any sequence of requests the converter and the models are
\* initialized at most once successfully: a readiness flag that is true
\* stays true, and once model_loaded is true no request runs initialize
\* again: the model flags stay as that initialization left them and the
\* handler keeps a converter.
C20_InitializedOnce ==
    [][docling_handler # None =>
        /\ docling_handler' # None
        /\ docling_handler.model_loaded => docling_handler'.model_loaded
        /\ docling_handler.image_model_loaded => docling_handler'.image_model_loaded
        /\ docling_handler.formula_model_loaded => docling_handler'.formula_model_loaded
        /\ docling_handler.model_loaded =>
              /\ docling_handler'.image_model_loaded = docling_handler.image_model_loaded
              /\ docling_handler'.formula_model_loaded = docling_handler.formula_model_loaded
              /\ docling_handler'.converter # None
              /\ docling_handler'.converter.type = docling_handler.converter.type]_vars

\* A handler loaded with its captioning model and without its formula
\* model, after three further requests.
C20_Witness ==
    /\ docling_handler # None
    /\ docling_handler.model_loaded
    /\ docling_handler.image_model_loaded
    /\ ~docling_handler.formula_model_loaded
    /\ probe # None
    /\ probe.served = 2

\* C21: handler never raises: every event, also one during which the
\* initialization, the decoding or the conversion fails, is answered with
\* a mapping that holds a boolean success, and with an error message
\* whenever success is false.
C21_HandlerAlwaysAnswers ==
    event # None =>
        /\ ~HasAttr(response, "raised")
        /\ HasAttr(response, "success")
        /\ response.success \in BOOLEAN
        /\ response.success = FALSE => HasAttr(response, "error")

\* A request whose conversion raised, answered with success false and the
\* error.
C21_Witness ==
    /\ event # None
    /\ call.type = "convert_document"
    /\ call.raised
    /\ call.converted
    /\ response.success = FALSE
    /\ response.error = "conversion failed"

\* The global handler exists and an initialize() of it has raised: it is
\* not loaded.
InitializationFailed ==
    /\ docling_handler # None
    /\ ~docling_handler.model_loaded

\* C22: a failed initialization is not permanent: a conversion request
\* (by URL or by base64 data) served after an initialization that raised
\* retries the initialization, and when that, the download or decoding
\* and the conversion succeed, it is answered with success.
C22_RetryAfterFailedInitialization ==
    [][(/\ InitializationFailed
        /\ \/ /\ call'.type = "convert_from_url"
              /\ ~call'.initialize_raises
              /\ ~call'.download_raises
              /\ ~call'.convert_raises
           \/ /\ call'.type = "convert_document"
              /\ call'.after.model_loaded
              /\ ~(call'.raised /\ call'.converted))
       => /\ docling_handler'.model_loaded
          /\ response'.success = TRUE]_vars

\* The handler h is as cleanup() leaves an initialized handler.
CleanedUp(h) == h.model_loaded /\ h.converter = None

\* C23: after cleanup() has run on an initialized handler the converter is
\* None and model_loaded is still true, whatever is called later: is_ready
\* then answers false and initializes nothing, and convert_document raises
\* the not-ready error without converting anything.
C23_CleanedUpNeverReady ==
    probe.type = "cleanup" =>
        /\ CleanedUp(docling_handler)
        /\ (response.type = "is_ready" /\ CleanedUp(response.before)) => ~response.value
        /\ (IsCall /\ CleanedUp(call.before)) =>
              /\ call.raised
              /\ ~call.converted
              /\ call.after = call.before

\* After cleanup, is_ready has answered false and a convert_document call
\* has raised.
C23_Witness ==
    /\ probe.type = "cleanup"
    /\ response.type = "is_ready"
    /\ CleanedUp(response.before)
    /\ ~response.value
    /\ IsCall
    /\ CleanedUp(call.before)
    /\ call.raised

BatchServed == call.type = "handle_batch_conversion" /\ response # None

\* Document number n of the batch converts: it is a mapping without url
\* that carries well-padded base64 data, and the converter does not fail.
Converts(documents, n) ==
    /\ IsMapping(documents[n])
    /\ ~HasAttr(documents[n], "url")
    /\ HasAttr(documents[n], "base64")
    /\ Len(documents[n].base64) % 4 = 0
    /\ call.raising # n

\* The entry of document number n: its index, and a result with success
\* true and the document's filename when it converts, a failure otherwise.
EntryOf(entry, documents, n) ==
    /\ entry.index = n - 1
    /\ IF Converts(documents, n)
       THEN /\ entry.result.success = TRUE
            /\ entry.result.filename =
                  GetAttr(documents[n], "filename", "document_" \o Numeral(n - 1) \o ".pdf")
       ELSE /\ GetAttr(entry, "result", entry).success = FALSE
            /\ HasAttr(GetAttr(entry, "result", entry), "error")

BatchOutline(documents) ==
    /\ response.success = TRUE
    /\ HasAttr(response, "results")
    /\ Len(response.results) = Len(documents)
    /\ \A n \in DOMAIN documents : EntryOf(response.results[n], documents, n)
    /\ response.total_documents = Len(documents)
    /\ response.successful_conversions =
          Cardinality({n \in DOMAIN documents : Converts(documents, n)})

\* C24 (amended): in the batch conversion of a non-empty documents list the
\* results have one entry per document, in input order and with the
\* document's index; a document that fails, or has neither url nor base64,
\* yields a failure entry and the later documents are still converted;
\* total_documents is the number of documents and successful_conversions
\* the number of entries whose result has success true.
C24_OneEntryPerDocument ==
    (BatchServed /\ Len(event.documents) > 0) => BatchOutline(event.documents)

\* A failing document is followed by one that converts.
C24_Witness ==
    /\ BatchServed
    /\ Len(event.documents) = 2
    /\ ~Converts(event.documents, 1)
    /\ Converts(event.documents, 2)
    /\ response.results[2].result.success = TRUE
    /\ response.successful_conversions = 1

\* C24 as stated, for every documents list, the empty one included.
C24_EveryBatchHasResults ==
    BatchServed => BatchOutline(event.documents)

\* C25: every temporary file created for a conversion, from base64 data or
\* from a download, is deleted before the call returns, so that no
\* temporary file of a finished call remains.
C25_NoTemporaryFileRemains == temp_files = {}

\* The positions in the French table of the keys that occur in text as
\* case-insensitive substrings.
KeysIn(text) ==
    {k \in DOMAIN translations_to_french :
        Contains(lower(text), translations_to_french[k][1])}

\* C26: in the translation to French, when a table key occurs in the text
\* as a case-insensitive substring, the returned text carries the target
\* phrase of the first such key in table order and none of another key
\* that occurs; when no key occurs the text is returned unchanged.
C26_FirstKeyReplaced ==
    Answered("translate_to_french") =>
        IF KeysIn(call.text) = {}
        THEN response.text = call.text
        ELSE \E k \in KeysIn(call.text) :
                /\ \A j \in KeysIn(call.text) : k <= j
                /\ Contains(response.text, translations_to_french[k][2])
                /\ \A j \in KeysIn(call.text) \ {k} :
                      ~Contains(response.text, translations_to_french[j][2])

\* C27: the cleaned form the single-formula enricher returns for a span of
\* text holds none of the math delimiters, and enriching it again returns
\* it unchanged.
C27_CleanedFormHasNoDelimiter ==
    (Answered("enrich_single_formula") /\ ~HasAttr(call, "python_type")) =>
        /\ \A delimiter \in {"$", "\\[", "\\]", "\\(", "\\)"} :
              ~Contains(response.formula, delimiter)
        /\ enrich_single_formula(response.formula, TRUE).formula = response.formula

\* The entries the elements with the given label add to their list, built
\* element by element.
RECURSIVE OutlineOf(_, _)
OutlineOf(elements, label) ==
    IF Len(elements) = 0 THEN << >>
    ELSE (IF HasAttr(Head(elements), "label") /\ Head(elements).label = label
          THEN <<IF label = "heading"
                 THEN [text |-> GetAttr(Head(elements), "text", ""),
                       level |-> GetAttr(Head(elements), "level", 1)]
                 ELSE [text |-> GetAttr(Head(elements), "text", ""),
                       type |-> GetAttr(Head(elements), "list_type", "bullet")]>>
          ELSE << >>)
         \o OutlineOf(Tail(elements), label)

\* C28: for every sequence of elements the outline, when the analysis does
\* not raise, has in headings one entry per element labelled heading and in
\* lists one per element labelled list, both in element order, with level
\* 1 and type "bullet" when the element has none; other elements add
\* nothing, and figures, tables and formulas are empty.
C28_OutlineFollowsElements ==
    (Answered("analyze_document_structure") /\ ~call.raises) =>
        /\ HasAttr(response, "document_structure")
        /\ response.document_structure.headings =
              OutlineOf(GetAttr(call.document, "elements", << >>), "heading")
        /\ response.document_structure.lists =
              OutlineOf(GetAttr(call.document, "elements", << >>), "list")
        /\ response.document_structure.figures = << >>
        /\ response.document_structure.tables = << >>
        /\ response.document_structure.formulas = << >>

\* A heading without level after an element without label.
C28_Witness ==
    /\ Answered("analyze_document_structure")
    /\ ~call.raises
    /\ HasAttr(call.document, "elements")
    /\ Len(call.document.elements) = 2
    /\ ~HasAttr(call.document.elements[1], "label")
    /\ call.document.elements[2] = [label |-> "heading"]
    /\ response.document_structure.headings = <<[text |-> "", level |-> 1]>>
    /\ response.document_structure.lists = << >>

=============================================================================
